---- MODULE Spec2Model ----
(***************************************************************************)
(* A model of the NDIF monitor's status aggregation and history engine:   *)
(* the worst-status folds (results.py, history.py), the per-model         *)
(* current-state record and its update (runner.py), and the JSONL history *)
(* store (history.py).                                                     *)
(***************************************************************************)
EXTENDS Integers, Sequences, FiniteSets, TLC

(***************************************************************************)
(* Bounds of the model.                                                    *)
(***************************************************************************)
\* longest list of statuses given to a fold
MaxLen == 3
\* the clock runs from 0 to MaxClock ticks
MaxClock == 1
\* clock ticks per second: a datetime whose tick count is a multiple of
\* TicksPerSec has microsecond == 0
TicksPerSec == 2
\* update_model_status calls in one behaviour
MaxUpdates == 3
\* lines in the history file of the history store's own runs
MaxHist == 2
\* days the clock runs over, and the largest `days` / `keep_days` given
MaxDays == 2

\* the longest list of models given to run in cycle mode
MaxModels == 3
\* the most next_model calls followed
MaxRuns == 6
\* the most patterns of classify_error found in one error text
MaxFound == 2
\* the hour of the day, UTC, at the clock's tick 0
EpochHour == 3
\* hours the clock runs over within a day
MaxHours == 2

(***************************************************************************)
(* results.py: the outcome vocabulary.                                     *)
(***************************************************************************)
\* class Status(Enum): the enum members, by their .value
Status == {"OK", "SLOW", "DEGRADED", "FAILED", "UNAVAILABLE", "COLD"}

\* Python's None where the other values are strings
None == "None"

\* `x in statuses` for a Python list
In(x, statuses) == \E i \in 1..Len(statuses) : statuses[i] = x

\* all(s == x for s in statuses)
AllAre(x, statuses) == \A i \in 1..Len(statuses) : statuses[i] = x

(***************************************************************************)
(* history.py: the helper worst_status of get_daily_summary.               *)
(***************************************************************************)
\* a fold that is not worst_status: it returns the first status of the list
\* (the properties of worst_status must tell the two apart)
worst_status_first(statuses) ==
    IF statuses = <<>> THEN None ELSE statuses[1]

\* a fold that is not worst_status: FAILED takes precedence over UNAVAILABLE
worst_status_failed_first(statuses) ==
    IF In("FAILED", statuses) THEN "FAILED"
    ELSE IF In("UNAVAILABLE", statuses) THEN "UNAVAILABLE"
    ELSE IF In("DEGRADED", statuses) THEN "DEGRADED"
    ELSE IF In("SLOW", statuses) THEN "SLOW"
    ELSE IF statuses # <<>> /\ AllAre("COLD", statuses) THEN "COLD"
    ELSE IF statuses # <<>> THEN "OK" ELSE None

\* worst_status(statuses), history.py:254-265
worst_status(statuses) ==
    IF In("UNAVAILABLE", statuses) THEN "UNAVAILABLE"
    ELSE IF In("FAILED", statuses) THEN "FAILED"
    ELSE IF In("DEGRADED", statuses) THEN "DEGRADED"
    ELSE IF In("SLOW", statuses) THEN "SLOW"
    ELSE IF statuses # <<>> /\ AllAre("COLD", statuses) THEN "COLD"
    ELSE IF statuses # <<>> THEN "OK" ELSE None

(***************************************************************************)
(* results.py: ModelStatus.overall_status.  The scenarios of a ModelStatus *)
(* are a dict, modelled as the sequence of its items in insertion order;   *)
(* each item is [name, res] with res a ScenarioResult.                     *)
(***************************************************************************)
\* [s.status for s in self.scenarios.values()]
ScenarioStatuses(scenarios) ==
    [i \in 1..Len(scenarios) |-> scenarios[i].res.status]

\* a fold that is not overall_status: one COLD scenario makes the model COLD
overall_status_cold_any(scenarios) ==
    IF scenarios = <<>> THEN "UNAVAILABLE"
    ELSE LET statuses == ScenarioStatuses(scenarios) IN
         IF In("UNAVAILABLE", statuses) THEN "UNAVAILABLE"
         ELSE IF In("FAILED", statuses) THEN "FAILED"
         ELSE IF In("DEGRADED", statuses) THEN "DEGRADED"
         ELSE IF In("SLOW", statuses) THEN "SLOW"
         ELSE IF In("COLD", statuses) THEN "COLD"
         ELSE "OK"

\* ModelStatus.overall_status, results.py:81-105
overall_status(scenarios) ==
    IF scenarios = <<>> THEN "UNAVAILABLE"
    ELSE LET statuses == ScenarioStatuses(scenarios) IN
         IF In("UNAVAILABLE", statuses) THEN "UNAVAILABLE"
         ELSE IF In("FAILED", statuses) THEN "FAILED"
         ELSE IF In("DEGRADED", statuses) THEN "DEGRADED"
         ELSE IF In("SLOW", statuses) THEN "SLOW"
         ELSE IF AllAre("COLD", statuses) THEN "COLD"
         ELSE "OK"

(***************************************************************************)
(* Optional values (Python's None) and dicts.                              *)
(***************************************************************************)
\* None where the other values are not strings
Absent == <<>>
Some(x) == <<x>>
Get(o) == o[1]

\* truthiness of an Optional[str]: not None, not ""
Truthy(o) == o # Absent /\ Get(o) # ""

\* the same for a text modelled by its length
TruthyText(o) == o # Absent /\ Get(o).n > 0

\* position of key `name` in a dict kept as a sequence of items, 0 if absent
IndexOf(items, name) ==
    IF \E i \in 1..Len(items) : items[i].name = name
    THEN CHOOSE i \in 1..Len(items) : items[i].name = name
    ELSE 0

\* d.get(name)
DictGet(items, name) ==
    IF IndexOf(items, name) = 0 THEN Absent
    ELSE Some(items[IndexOf(items, name)].res)

\* not d[name] = res: a dict that holds this one key only
DictPut_alone(items, name, res) == <<[name |-> name, res |-> res]>>

\* d[name] = res: an existing key keeps its position, a new key goes last
DictPut(items, name, res) ==
    IF IndexOf(items, name) = 0
    THEN Append(items, [name |-> name, res |-> res])
    ELSE [items EXCEPT ![IndexOf(items, name)].res = res]

(***************************************************************************)
(* Text.  A str is modelled by the length n of the prefix it keeps of the  *)
(* text it was cut from, and whether "... [truncated]" follows it.         *)
(***************************************************************************)
Str(n) == [n |-> n, cut |-> FALSE]

\* results.py:49: details longer than this are cut in the status file
StatusDetailsMax == 500
\* history.py:100: details longer than this are cut in the history file
HistDetailsMax == 2048

(***************************************************************************)
(* Time.  A datetime is a number of clock ticks.  isoformat() prints the   *)
(* seconds and, only when microsecond != 0, the fraction; the writers add  *)
(* "Z".  An ISO string is [s, f, z]: seconds, fraction (0: not printed),   *)
(* and whether "Z" ends it.                                                *)
(***************************************************************************)
\* datetime.isoformat()
isoformat(t) == [s |-> t \div TicksPerSec, f |-> t % TicksPerSec, z |-> FALSE]

\* text + "Z"
PlusZ(iso) == [iso EXCEPT !.z = TRUE]

\* datetime.fromisoformat(text.rstrip("Z"))
fromisoformat_rstripZ(iso) == iso.s * TicksPerSec + iso.f

\* timedelta(days=1), in seconds and in ticks
SecondsPerDay == 86400
DayTicks == SecondsPerDay * TicksPerSec

\* a < b on two ISO texts as Python compares str: character by character,
\* and a proper prefix is the smaller.  The seconds part has a fixed width;
\* after it comes nothing, "Z", ".ffffff" or ".ffffffZ", and "." < "Z".
StrLess(a, b) ==
    IF a.s # b.s THEN a.s < b.s
    ELSE IF a.f = 0 /\ b.f = 0 THEN ~a.z /\ b.z
    ELSE IF a.f = 0 THEN ~a.z
    ELSE IF b.f = 0 THEN b.z
    ELSE IF a.f # b.f THEN a.f < b.f
    ELSE ~a.z /\ b.z

\* not ScenarioResult.to_dict: the details are written whole
ScenarioResult_to_dict_uncut(r) ==
    [status |-> r.status,
     duration_ms |-> r.duration_ms,
     last_checked |-> PlusZ(isoformat(r.last_checked)),
     last_success |-> IF r.last_success # Absent
                      THEN Some(PlusZ(isoformat(Get(r.last_success))))
                      ELSE Absent,
     error_category |-> r.error_category,
     details |-> r.details]

(***************************************************************************)
(* results.py: ScenarioResult and ModelStatus.                             *)
(***************************************************************************)
\* ScenarioResult.to_dict, results.py:45-58
ScenarioResult_to_dict(r) ==
    LET details == IF TruthyText(r.details)
                      /\ Get(r.details).n
                         + (IF Get(r.details).cut THEN 15 ELSE 0) > StatusDetailsMax
                   THEN Some([n |-> StatusDetailsMax, cut |-> TRUE])
                   ELSE r.details
    IN  [status |-> r.status,
         duration_ms |-> r.duration_ms,
         last_checked |-> PlusZ(isoformat(r.last_checked)),
         last_success |-> IF r.last_success # Absent
                          THEN Some(PlusZ(isoformat(Get(r.last_success))))
                          ELSE Absent,
         error_category |-> r.error_category,
         details |-> details]

ScenarioResult_from_dict(data) ==
    [status |-> data.status,
     duration_ms |-> data.duration_ms,
     last_checked |-> fromisoformat_rstripZ(data.last_checked),
     last_success |-> IF data.last_success # Absent
                      THEN Some(fromisoformat_rstripZ(Get(data.last_success)))
                      ELSE Absent,
     error_category |-> data.error_category,
     details |-> data.details]

\* min() of a non-empty set of datetimes
Min(S) == CHOOSE x \in S : \A y \in S : x <= y
Max(S) == CHOOSE x \in S : \A y \in S : x >= y

\* [s.last_success for s in self.scenarios.values() if s.last_success]
Successes(scenarios) ==
    SelectSeq([i \in 1..Len(scenarios) |-> scenarios[i].res.last_success],
              LAMBDA ls : ls # Absent)

\* not last_all_ok: the latest last_success instead of the earliest
last_all_ok_max(scenarios) ==
    IF scenarios = <<>> THEN Absent
    ELSE LET successes == Successes(scenarios) IN
         IF successes = <<>> \/ Len(successes) # Len(scenarios) THEN Absent
         ELSE Some(Max({Get(successes[i]) : i \in 1..Len(successes)}))

\* ModelStatus.last_all_ok
last_all_ok(scenarios) ==
    IF scenarios = <<>> THEN Absent
    ELSE LET successes == Successes(scenarios) IN
         IF successes = <<>> \/ Len(successes) # Len(scenarios) THEN Absent
         ELSE Some(Min({Get(successes[i]) : i \in 1..Len(successes)}))

\* ModelStatus.to_dict, results.py:120-129
ModelStatus_to_dict(ms) ==
    [model |-> ms.model,
     last_updated |-> PlusZ(isoformat(ms.last_updated)),
     nnsight_version |-> ms.nnsight_version,
     overall_status |-> overall_status(ms.scenarios),
     last_all_ok |-> IF last_all_ok(ms.scenarios) # Absent
                     THEN Some(PlusZ(isoformat(Get(last_all_ok(ms.scenarios)))))
                     ELSE Absent,
     scenarios |-> [i \in 1..Len(ms.scenarios) |->
                      [name |-> ms.scenarios[i].name,
                       res |-> ScenarioResult_to_dict(ms.scenarios[i].res)]]]

ModelStatus_from_dict(data) ==
    [model |-> data.model,
     last_updated |-> fromisoformat_rstripZ(data.last_updated),
     nnsight_version |-> data.nnsight_version,
     scenarios |-> [i \in 1..Len(data.scenarios) |->
                      [name |-> data.scenarios[i].name,
                       res |-> ScenarioResult_from_dict(data.scenarios[i].res)]]]

(***************************************************************************)
(* results.py: model_to_filename.  A model identifier is a tuple of        *)
(* characters.                                                             *)
(***************************************************************************)
RECURSIVE Replace(_, _, _)
\* str.replace(old, new) for a one-character old
Replace(name, old, new) ==
    IF name = <<>> THEN <<>>
    ELSE (IF Head(name) = old THEN new ELSE <<Head(name)>>)
         \o Replace(Tail(name), old, new)

\* model_to_filename, results.py:265-269
model_to_filename(model_name) ==
    Replace(Replace(model_name, "/", <<"-", "-">>), ":", <<"_">>) \o <<".json">>

RECURSIVE ReplaceAll(_, _, _)
\* str.replace(old, new) for a non-empty old: the occurrences of old are
\* taken from the left and do not overlap
ReplaceAll(name, old, new) ==
    IF Len(name) < Len(old) THEN name
    ELSE IF SubSeq(name, 1, Len(old)) = old
         THEN new \o ReplaceAll(SubSeq(name, Len(old) + 1, Len(name)), old, new)
         ELSE <<Head(name)>> \o ReplaceAll(Tail(name), old, new)

\* filename_to_model, results.py:272-275
filename_to_model(filename) ==
    LET name == ReplaceAll(filename, <<".json">>, <<>>)
    IN  ReplaceAll(ReplaceAll(name, <<"-", "-">>, <<"/">>), <<"_">>, <<":">>)

(***************************************************************************)
(* history.py: HistoryEntry and its JSON line.  A line of the history file *)
(* is [kind, data]; kind "object" is a JSON object, data its keys.         *)
(***************************************************************************)
\* self.details[:2048] if len(self.details) > 2048 else self.details
CutDetails(text) ==
    IF text.n > HistDetailsMax THEN Str(HistDetailsMax) ELSE text

\* not to_json_line: it tests `is not None` where the code tests truthiness,
\* and so writes the optional keys for empty values too
to_json_line_keep_empty(e) ==
    [kind |-> "object",
     data |-> [ts |-> e.timestamp, m |-> e.model, s |-> e.scenario,
               st |-> e.status, d |-> e.duration_ms]
              @@ (IF e.error_category # Absent
                  THEN "ec" :> Get(e.error_category) ELSE <<>>)
              @@ (IF e.details # Absent
                  THEN "det" :> CutDetails(Get(e.details)) ELSE <<>>)
              @@ (IF e.host # Absent THEN "h" :> Get(e.host) ELSE <<>>)
              @@ (IF e.user # Absent THEN "u" :> Get(e.user) ELSE <<>>)]

\* HistoryEntry.to_json_line, history.py:87-106
to_json_line(e) ==
    [kind |-> "object",
     data |-> [ts |-> e.timestamp, m |-> e.model, s |-> e.scenario,
               st |-> e.status, d |-> e.duration_ms]
              @@ (IF Truthy(e.error_category)
                  THEN "ec" :> Get(e.error_category) ELSE <<>>)
              @@ (IF TruthyText(e.details)
                  THEN "det" :> CutDetails(Get(e.details)) ELSE <<>>)
              @@ (IF Truthy(e.host) THEN "h" :> Get(e.host) ELSE <<>>)
              @@ (IF Truthy(e.user) THEN "u" :> Get(e.user) ELSE <<>>)]

\* data.get(key)
JsonGet(data, key) == IF key \in DOMAIN data THEN Some(data[key]) ELSE Absent

\* HistoryEntry.from_json_line, history.py:108-122
from_json_line(line) ==
    [timestamp |-> line.data.ts,
     model |-> line.data.m,
     scenario |-> line.data.s,
     status |-> line.data.st,
     duration_ms |-> line.data.d,
     error_category |-> JsonGet(line.data, "ec"),
     details |-> JsonGet(line.data, "det"),
     host |-> JsonGet(line.data, "h"),
     user |-> JsonGet(line.data, "u")]

(***************************************************************************)
(* history.py: HistoryStore.  The file is the sequence of its lines.       *)
(***************************************************************************)
\* HistoryStore.append: the file after f.write(entry.to_json_line() + "\n")
append(lines, entry) == Append(lines, to_json_line(entry))

\* HistoryStore.append_many: one line per entry, in order
append_many(lines, entries) ==
    lines \o [i \in 1..Len(entries) |-> to_json_line(entries[i])]

\* from_json_line(line) returns: the line is a JSON object with the five
\* required keys (else json.loads or data[key] raises).  A line of kind
\* "blank" is empty after strip(), one of kind "invalid" is no JSON, one
\* of kind "nonobject" is JSON but no object.
Parses(line) ==
    /\ line.kind = "object"
    /\ {"ts", "m", "s", "st", "d"} \subseteq DOMAIN line.data

\* a JSON value that is a str: the timestamp texts are the ISO records
IsText(v) == "s" \in DOMAIN v

\* reading the line raises TypeError, which load and prune do not catch:
\* the line is valid JSON but no object (data["ts"] on a list, a str, a
\* number or null), or its "ts" is no str (entry.timestamp < cutoff_str)
LineRaises(line) ==
    \/ line.kind = "nonobject"
    \/ Parses(line) /\ ~IsText(line.data.ts)

\* load and prune raise on the first such line they read
ReadRaises(lines) == \E i \in 1..Len(lines) : LineRaises(lines[i])

\* cutoff_str of load and prune
cutoff_str(days, now) == isoformat(now - days * DayTicks)

\* truthiness of the `model` filter, a str or None
TruthyName(o) == o # Absent /\ Len(Get(o)) > 0

\* HistoryStore.load(days, model, scenario) at utcnow() = now, when it
\* returns
load(lines, days, model, scenario, now) ==
    LET Kept(line) ==
            /\ Parses(line)
            /\ ~StrLess(from_json_line(line).timestamp, cutoff_str(days, now))
            /\ TruthyName(model) => from_json_line(line).model = Get(model)
            /\ Truthy(scenario) => from_json_line(line).scenario = Get(scenario)
        kept == SelectSeq(lines, Kept)
    IN  [i \in 1..Len(kept) |-> from_json_line(kept[i])]

\* HistoryStore.prune(keep_days) at utcnow() = now: the lines it keeps and
\* the number it removes
PruneKept(lines, keep_days, now) ==
    LET Kept(line) ==
            /\ Parses(line)
            /\ ~StrLess(from_json_line(line).timestamp, cutoff_str(keep_days, now))
    IN  SelectSeq(lines, Kept)

PruneRemoved(lines, keep_days, now) ==
    LET Old(line) ==
            /\ Parses(line)
            /\ StrLess(from_json_line(line).timestamp, cutoff_str(keep_days, now))
    IN  Len(SelectSeq(lines, Old))

\* not the file after prune: opened for writing, and left empty
prune_emptied(lines, keep_days, now) ==
    IF PruneRemoved(lines, keep_days, now) > 0 THEN <<>> ELSE lines

\* the file after prune: rewritten only if something was removed
prune(lines, keep_days, now) ==
    IF PruneRemoved(lines, keep_days, now) > 0
    THEN PruneKept(lines, keep_days, now)
    ELSE lines

(***************************************************************************)
(* history.py: the daily summary.  Dates are counted in days and hours in  *)
(* hours of the day; the clock's tick 0 is EpochHour o'clock UTC of day 0. *)
(***************************************************************************)
\* hours that America/New_York (EASTERN) is behind UTC on the days modelled
EasternOffsetHours == 5

\* timedelta(hours=1) in ticks
HourTicks == DayTicks \div 24

\* "YYYY-MM-DD-H": the text of a date and an hour, by the day and the hour
\* of the day of an instant given in ticks since 00:00 of day 0
DateHour(ticks) ==
    [date |-> ticks \div DayTicks, hour |-> (ticks % DayTicks) \div HourTicks]

\* not utc_to_eastern_hour: the date and hour in UTC
utc_to_eastern_hour_utc(timestamp) ==
    DateHour(fromisoformat_rstripZ(timestamp) + EpochHour * HourTicks)

\* utc_to_eastern_hour(timestamp): the text is parsed as UTC, converted to
\* EASTERN and formatted as date and hour (every timestamp append writes
\* parses)
utc_to_eastern_hour(timestamp) ==
    DateHour(fromisoformat_rstripZ(timestamp) + EpochHour * HourTicks
             - EasternOffsetHours * HourTicks)

\* list(d.values()) of a dict kept as a sequence of items
DictValues(items) == [i \in 1..Len(items) |-> items[i].res]

\* not lines 238-252: a scenario keeps the status of its first entry
DailyPut_first(daily, entry) ==
    LET hour_key == utc_to_eastern_hour(entry.timestamp)
        date == hour_key.date
        hour == hour_key.hour
        key == <<date, entry.model>>
        old == IF key \in DOMAIN daily THEN daily[key]
               ELSE [scenarios |-> <<>>, hours |-> <<>>]
        list == IF DictGet(old.hours, hour) = Absent THEN <<>>
                ELSE Get(DictGet(old.hours, hour))
        new == [scenarios |->
                   IF DictGet(old.scenarios, entry.scenario) = Absent
                   THEN DictPut(old.scenarios, entry.scenario, entry.status)
                   ELSE old.scenarios,
                hours |-> DictPut(old.hours, hour, Append(list, entry.status))]
    IN  [k \in DOMAIN daily \cup {key} |-> IF k = key THEN new ELSE daily[k]]

\* get_daily_summary, lines 238-252: `daily` after one more entry; daily
\* maps (date, model) to its "scenarios" and "hours" dicts
DailyPut(daily, entry) ==
    LET hour_key == utc_to_eastern_hour(entry.timestamp)
        date == hour_key.date
        hour == hour_key.hour
        key == <<date, entry.model>>
        old == IF key \in DOMAIN daily THEN daily[key]
               ELSE [scenarios |-> <<>>, hours |-> <<>>]
        list == IF DictGet(old.hours, hour) = Absent THEN <<>>
                ELSE Get(DictGet(old.hours, hour))
        new == [scenarios |-> DictPut(old.scenarios, entry.scenario, entry.status),
                hours |-> DictPut(old.hours, hour, Append(list, entry.status))]
    IN  [k \in DOMAIN daily \cup {key} |-> IF k = key THEN new ELSE daily[k]]

\* `daily` after the loop over the entries
RECURSIVE Daily(_)
Daily(entries) ==
    IF entries = <<>> THEN <<>>
    ELSE DailyPut(Daily(SubSeq(entries, 1, Len(entries) - 1)),
                  entries[Len(entries)])

\* not the `overall` of get_daily_summary: the fold over the hour buckets,
\* that is over every entry of the date
summary_overall_all_entries(model_data) ==
    worst_status([i \in 1..Len(model_data.hours) |->
                     worst_status(model_data.hours[i].res)])

\* lines 271-272: overall = worst_status(list(model_data["scenarios"].values()))
summary_overall(model_data) == worst_status(DictValues(model_data.scenarios))

\* lines 268-284: the summary made of `daily`
Summary(daily) ==
    [k \in DOMAIN daily |->
        [status |-> summary_overall(daily[k]),
         scenarios |-> daily[k].scenarios,
         hours |-> [i \in 1..Len(daily[k].hours) |->
                      [name |-> daily[k].hours[i].name,
                       res |-> worst_status(daily[k].hours[i].res)]]]]

\* HistoryStore.get_daily_summary(days) at utcnow() = now
get_daily_summary(lines, days, now) ==
    Summary(Daily(load(lines, days, Absent, Absent, now)))

\* get_hostname(), get_username()
Hostname == "host"
Username == "user"

(***************************************************************************)
(* runner.py: update_model_status, up to the save.                         *)
(***************************************************************************)
\* the text of a file that open(path, "w") has truncated and nothing has
\* been written to yet
EmptyText == <<>>

\* a text that json.load rejects: a JSON document followed by the rest of
\* a longer one that was in the file before
TornText == [torn |-> TRUE]

\* ModelStatus.load(path) raises: json.load finds no JSON document
LoadRaises(file) ==
    file # Absent /\ (Get(file) = EmptyText \/ Get(file) = TornText)

\* ModelStatus.load(path): None if the file does not exist
ModelStatus_load(file) ==
    IF file = Absent THEN Absent ELSE Some(ModelStatus_from_dict(Get(file)))

\* not update_model_status: only OK, and not SLOW, advances last_success
UpdatedStatus_ok_only(loaded, model_name, scenario_name, result, nnsight_version, now) ==
    LET status == IF loaded = Absent
                  THEN [model |-> model_name, last_updated |-> now,
                        nnsight_version |-> nnsight_version, scenarios |-> <<>>]
                  ELSE Get(loaded)
        existing == DictGet(status.scenarios, scenario_name)
        carried == IF existing # Absent THEN Get(existing).last_success ELSE Absent
        last_success == IF result.status = "OK" THEN Some(now) ELSE carried
        new == [status |-> result.status,
                duration_ms |-> result.duration_ms,
                last_checked |-> now,
                last_success |-> last_success,
                error_category |-> result.error_category,
                details |-> result.details]
    IN  [status EXCEPT !.scenarios = DictPut(@, scenario_name, new),
                       !.last_updated = now,
                       !.nnsight_version = nnsight_version]

\* not update_model_status: last_checked is result.timestamp instead of now
UpdatedStatus_checked_at_result(loaded, model_name, scenario_name, result, nnsight_version, now) ==
    LET status == IF loaded = Absent
                  THEN [model |-> model_name, last_updated |-> now,
                        nnsight_version |-> nnsight_version, scenarios |-> <<>>]
                  ELSE Get(loaded)
        existing == DictGet(status.scenarios, scenario_name)
        carried == IF existing # Absent THEN Get(existing).last_success ELSE Absent
        last_success == IF result.status \in {"OK", "SLOW"} THEN Some(now) ELSE carried
        new == [status |-> result.status,
                duration_ms |-> result.duration_ms,
                last_checked |-> result.timestamp,
                last_success |-> last_success,
                error_category |-> result.error_category,
                details |-> result.details]
    IN  [status EXCEPT !.scenarios = DictPut(@, scenario_name, new),
                       !.last_updated = now,
                       !.nnsight_version = nnsight_version]

\* lines 176-204: the ModelStatus that is saved
UpdatedStatus(loaded, model_name, scenario_name, result, nnsight_version, now) ==
    LET status == IF loaded = Absent
                  THEN [model |-> model_name, last_updated |-> now,
                        nnsight_version |-> nnsight_version, scenarios |-> <<>>]
                  ELSE Get(loaded)
        existing == DictGet(status.scenarios, scenario_name)
        carried == IF existing # Absent THEN Get(existing).last_success ELSE Absent
        last_success == IF result.status \in {"OK", "SLOW"} THEN Some(now) ELSE carried
        new == [status |-> result.status,
                duration_ms |-> result.duration_ms,
                last_checked |-> now,
                last_success |-> last_success,
                error_category |-> result.error_category,
                details |-> result.details]
    IN  [status EXCEPT !.scenarios = DictPut(@, scenario_name, new),
                       !.last_updated = now,
                       !.nnsight_version = nnsight_version]

\* not lines 210-220: an entry stamped with result.timestamp
UpdateEntry_at_result(model_name, scenario_name, result, now) ==
    [timestamp |-> PlusZ(isoformat(result.timestamp)),
     model |-> model_name,
     scenario |-> scenario_name,
     status |-> result.status,
     duration_ms |-> result.duration_ms,
     error_category |-> result.error_category,
     details |-> result.details,
     host |-> Some(Hostname),
     user |-> Some(Username)]

\* lines 210-220: the HistoryEntry that is appended
UpdateEntry(model_name, scenario_name, result, now) ==
    [timestamp |-> PlusZ(isoformat(now)),
     model |-> model_name,
     scenario |-> scenario_name,
     status |-> result.status,
     duration_ms |-> result.duration_ms,
     error_category |-> result.error_category,
     details |-> result.details,
     host |-> Some(Hostname),
     user |-> Some(Username)]

(***************************************************************************)
(* State.                                                                  *)
(***************************************************************************)
VARIABLES
    \* the folds applied to a list of statuses and to its permutations
    fIn,        \* the list of statuses given
    fPerm,      \* a permutation of fIn
    fPc,        \* "start", "orig" (folded fIn), "perm" (permuted), "done" (folded fPerm)
    fHistOrig,  \* worst_status(fIn)
    fLiveOrig,  \* overall_status of a model whose scenarios carry fIn
    fHist,      \* worst_status(fPerm)
    fLive,      \* overall_status of a model whose scenarios carry fPerm
    \* the durable state and the worker updating it
    clock,        \* datetime.utcnow(), in ticks
    status_files, \* results_dir: file name -> Absent or Some(ModelStatus JSON)
    history_file, \* results_dir/history.jsonl: the sequence of its lines
    call,         \* the update_model_status call in progress, or Absent
    nUpdates,     \* update_model_status calls made so far
    \* run_single_model
    rPc,          \* "idle", "loop", "update", "opened", "saved", "returned",
                  \* "raised", "crashed"
    rModel,       \* the ModelInfo under test
    rIdx,         \* position in self.scenarios
    rResults,     \* the list `results`
    outcomes,     \* every result appended to a `results` list so far, and
                  \* whether its update_model_status call has returned
    \* the callers of the HistoryStore
    hAppended,    \* the entries given to append / append_many so far
    hLoaded,      \* the last load since the file changed: its arguments, its
                  \* now and the list it returned; or Absent
    hPruned,      \* the last prune since the last append: its keep_days, its
                  \* now, the lines before it and its return value; or Absent
    \* concurrent invocations appending to the history file
    aPc,          \* per invocation: "idle" or "open" (inside the with block)
    aPos,         \* per invocation: the length of the file when it was opened
    aTodo,        \* per invocation: the entries still to be given to f.write
    aBuf,         \* per invocation: the lines written to f and not yet
                  \* handed to the operating system
    \* concurrent invocations updating the status of one model
    uPc,          \* per invocation: "idle", "timed" (now read), "built",
                  \* "opened" (file truncated), "saved", "raised"
    uCall,        \* per invocation: the update_model_status call in progress
    uWritten,     \* the texts given to f.write by ModelStatus.save so far
    \* cycle mode
    cN,           \* the number of models in the list given to run, 0 before
                  \* the first invocation
    cFile,        \* .cycle_state.json: Absent or Some(its JSON object)
    cPc,          \* "none" (no process), "ready" (MonitorRunner built),
                  \* "selected", "tested"
    cLast,        \* CycleState.last_index of the running process
    cSelected,    \* per next_model call so far: the file before it, the index
                  \* and the model it returned
    cTested,      \* per cycle run so far: the models given to run_single_model
    \* the Test Executor
    eRaw,         \* what execute_notebook returned last, or Absent
    eResult,      \* what run_notebook_test made of it (a TestResult, or that
                  \* it raised), or Absent
    \* the dashboard
    sSummary,     \* the last get_daily_summary call since the history or the
                  \* time changed: its days, its now, the entries it loaded,
                  \* its `daily` and the summary it returned; or Absent
    \* the file names of the current-state records
    nModel,       \* the model identifier given to model_to_filename last
    nFile,        \* the file name it returned
    nBack,        \* what filename_to_model made of that file name, or Absent
    nPrev,        \* the identifier and the file name of the call before
    \* the end of main
    xResult,      \* the MonitorRun that runner.run returned, or Absent
    xExit,        \* the value main returned for it, or Absent
    \* a full sweep: main and runner.run
    wPc,          \* "none" (no process), "fetch" (run entered), "loop" (the
                  \* loop over the models), "returned", "aborted" (the fetch
                  \* raised), "raised" (run_single_model raised)
    wSweeps,      \* the invocations started so far
    wMainFetch,   \* whether main's own fetch_ndif_status succeeded
    wResponse,    \* what the status service answered to run's request
    wModels,      \* the list `models` of run
    wIdx,         \* the position of the loop in it
    wResults,     \* the list `results` of run
    wBefore,      \* the files and the counts when the invocation started
    wRun,         \* the MonitorRun that run returned, or Absent
    wExit,        \* the exit status of the process, or Absent
    \* the readers of a history file that may not exist
    qExists,      \* whether history.jsonl exists
    qRead,        \* the last call of load, prune, get_daily_summary or
                  \* get_recent_failures: its arguments, its now, the file
                  \* before it and what it returned; or Absent
    \* sync_notebooks_to_github
    gPc,          \* "idle", "pull" (about to pull), "push" (about to push),
                  \* "done" (returned)
    gSyncs,       \* the calls made so far
    gModel,       \* the model_name of the call
    gAttempt,     \* the loop variable `attempt`
    gCommands,    \* the git commands the call has run, each with its success
    gCommitted,   \* whether the commit of the call is in the local repository
    gReturn,      \* what the call returned, or Absent
    \* the selection of the models of a full sweep
    tStatus,      \* the status fetched: its deployments in order, or Absent
    tMax,         \* max_extra_per_architecture
    tSelected     \* what get_test_models returned for them, or Absent

foldVars == <<fIn, fPerm, fPc, fHistOrig, fLiveOrig, fHist, fLive>>
storeVars == <<clock, status_files, history_file>>
workerVars == <<call, nUpdates>>
runVars == <<rPc, rModel, rIdx, rResults, outcomes>>
histVars == <<hAppended, hLoaded, hPruned>>
appenderVars == <<aPc, aPos, aTodo, aBuf>>
writerVars == <<uPc, uCall, uWritten>>
\* the state of the concurrent invocations, which the sequential actions
\* leave alone
cycleVars == <<cN, cFile, cPc, cLast, cSelected, cTested>>
execVars == <<eRaw, eResult>>
summaryVars == <<sSummary>>
nameVars == <<nModel, nFile, nBack, nPrev>>
exitVars == <<xResult, xExit>>
sweepVars ==
    <<wPc, wSweeps, wMainFetch, wResponse, wModels, wIdx, wResults, wBefore, wRun,
      wExit>>
readVars == <<qExists, qRead>>
syncVars == <<gPc, gSyncs, gModel, gAttempt, gCommands, gCommitted, gReturn>>
selectVars == <<tStatus, tMax, tSelected>>
moreVars == <<nameVars, exitVars, sweepVars, readVars, syncVars, selectVars>>
sideVars == <<appenderVars, writerVars, cycleVars, execVars, summaryVars, moreVars>>
\* what the appending invocations leave alone, what the updating ones do,
\* and what cycle mode does
exceptAppender == <<writerVars, cycleVars, execVars, summaryVars, moreVars>>
exceptWriter == <<appenderVars, cycleVars, execVars, summaryVars, moreVars>>
exceptCycle ==
    <<foldVars, storeVars, workerVars, runVars, histVars, appenderVars, writerVars,
      execVars, summaryVars, moreVars>>
exceptExec ==
    <<foldVars, storeVars, workerVars, runVars, histVars, appenderVars, writerVars,
      cycleVars, summaryVars, moreVars>>
exceptSummary ==
    <<foldVars, workerVars, runVars, histVars, appenderVars, writerVars, cycleVars,
      execVars, moreVars>>
\* everything but the variables added last
settled ==
    <<foldVars, storeVars, workerVars, runVars, histVars, appenderVars, writerVars,
      cycleVars, execVars, summaryVars>>
exceptName == <<settled, exitVars, sweepVars, readVars, syncVars, selectVars>>
exceptExit == <<settled, nameVars, sweepVars, readVars, syncVars, selectVars>>
\* what the readers of the history leave alone
exceptRead ==
    <<foldVars, workerVars, runVars, histVars, appenderVars, writerVars, cycleVars,
      execVars, summaryVars, nameVars, exitVars, sweepVars, syncVars, selectVars>>
exceptSync == <<settled, nameVars, exitVars, sweepVars, readVars, selectVars>>
exceptSelect == <<settled, nameVars, exitVars, sweepVars, readVars, syncVars>>
\* what the steps of run itself leave alone
exceptSweep ==
    <<foldVars, workerVars, histVars, appenderVars, writerVars, cycleVars,
      summaryVars, nameVars, exitVars, readVars, syncVars, selectVars>>

\* not computed yet
Unset == "unset"

(***************************************************************************)
(* The folds as operations on a list of statuses.                          *)
(***************************************************************************)
\* all lists of at most n statuses
StatusLists(n) == UNION {[1..k -> Status] : k \in 0..n}

\* a ModelStatus.scenarios dict whose values carry the given statuses
ScenariosCarrying(statuses) ==
    [i \in 1..Len(statuses) |->
        [name |-> i, res |-> [status |-> statuses[i]]]]

FoldInit ==
    /\ fIn \in StatusLists(MaxLen)
    /\ fPerm = fIn
    /\ fPc = "start"
    /\ fHistOrig = Unset /\ fLiveOrig = Unset
    /\ fHist = Unset /\ fLive = Unset

\* the folds not in use
FoldIdle ==
    /\ fIn = <<>> /\ fPerm = <<>> /\ fPc = "idle"
    /\ fHistOrig = Unset /\ fLiveOrig = Unset
    /\ fHist = Unset /\ fLive = Unset

\* fold the list as given, at both call sites
FoldOriginal ==
    /\ fPc = "start"
    /\ fHistOrig' = worst_status(fIn)
    /\ fLiveOrig' = overall_status(ScenariosCarrying(fIn))
    /\ fPc' = "orig"
    /\ UNCHANGED <<fIn, fPerm, fHist, fLive, storeVars, workerVars, runVars, histVars, sideVars>>

\* reorder the list: exchange two neighbours (every permutation is a
\* composition of such exchanges)
FoldPermute ==
    /\ fPc \in {"orig", "perm", "done"}
    /\ \E i \in 1..(Len(fPerm) - 1) :
          fPerm' = [fPerm EXCEPT ![i] = fPerm[i + 1], ![i + 1] = fPerm[i]]
    /\ fPc' = "perm"
    /\ fHist' = Unset /\ fLive' = Unset
    /\ UNCHANGED <<fIn, fHistOrig, fLiveOrig, storeVars, workerVars, runVars, histVars, sideVars>>

\* fold the reordered list, at both call sites
FoldPermuted ==
    /\ fPc \in {"orig", "perm"}
    /\ fHist' = worst_status(fPerm)
    /\ fLive' = overall_status(ScenariosCarrying(fPerm))
    /\ fPc' = "done"
    /\ UNCHANGED <<fIn, fPerm, fHistOrig, fLiveOrig, storeVars, workerVars, runVars, histVars, sideVars>>

FoldNext == FoldOriginal \/ FoldPermute \/ FoldPermuted

(***************************************************************************)
(* The single worker calling update_model_status (runner.py).              *)
(***************************************************************************)
\* model identifiers and scenario names in use
Models == {<<"a", "/", "b">>}
ScenarioNames == {"basic_trace", "generation"}
NnsightVersion == "unknown"

StatusFileNames == {model_to_filename(m) : m \in Models}

\* the TestResults given to update_model_status: passing ones (OK, SLOW) and
\* one that is not (FAILED with an error and long details), built at time
\* ts (TestResult.timestamp defaults to utcnow() at construction)
TestResults(m, sc, ts) ==
    {[model |-> m, scenario |-> sc, status |-> "OK", duration_ms |-> 1,
      error_category |-> Absent, details |-> Absent, timestamp |-> ts],
     [model |-> m, scenario |-> sc, status |-> "SLOW", duration_ms |-> 2,
      error_category |-> Absent, details |-> Absent, timestamp |-> ts],
     [model |-> m, scenario |-> sc, status |-> "FAILED", duration_ms |-> 1,
      error_category |-> Some("TIMEOUT"),
      details |-> Some(Str(StatusDetailsMax + 1)), timestamp |-> ts]}

StoreInit ==
    /\ clock = 0
    /\ status_files = [f \in StatusFileNames |-> Absent]
    /\ history_file = <<>>

WorkerInit == call = Absent /\ nUpdates = 0

\* time passes
Tick ==
    /\ clock % DayTicks < MaxClock
    /\ clock' = clock + 1
    /\ UNCHANGED <<status_files, history_file, workerVars, foldVars, sideVars, histVars, runVars>>

\* update_model_status(model_name, scenario_name, result, nnsight_version)
\* with now = utcnow(): the ModelStatus it builds (lines 172-204)
NewStatus(files, model_name, scenario_name, result, nnsight_version, now) ==
    UpdatedStatus(ModelStatus_load(files[model_to_filename(model_name)]),
                  model_name, scenario_name, result, nnsight_version, now)

\* ModelStatus.save, open(path, "w"): the file exists and is empty
OpenedFiles(files, status) ==
    [files EXCEPT ![model_to_filename(status.model)] = Some(EmptyText)]

\* not f.write(self.to_json()) and close: the text does not reach the file
WrittenFiles_deferred(files, status) == files

\* ModelStatus.save, f.write(self.to_json()) and close
WrittenFiles(files, status) ==
    [files EXCEPT ![model_to_filename(status.model)] = Some(ModelStatus_to_dict(status))]

\* the status files after the whole save (lines 172-207)
SavedFiles(files, model_name, scenario_name, result, nnsight_version, now) ==
    LET status == NewStatus(files, model_name, scenario_name, result,
                            nnsight_version, now)
    IN  WrittenFiles(OpenedFiles(files, status), status)

\* the history file after update_model_status has appended (lines 210-221,
\* HistoryStore.append)
AppendedHistory(lines, model_name, scenario_name, result, now) ==
    Append(lines, to_json_line(UpdateEntry(model_name, scenario_name, result, now)))

\* the update in progress: its arguments, its now, what load_model_status
\* returned and the `status` it built
Call(m, sc, r) ==
    Some([model |-> m, scenario |-> sc, result |-> r, now |-> clock,
          loaded |-> ModelStatus_load(status_files[model_to_filename(m)]),
          status |-> NewStatus(status_files, m, sc, r, NnsightVersion, clock)])

\* the same for a call that read its now earlier than it loads the record
CallAt(m, sc, r, now) ==
    Some([model |-> m, scenario |-> sc, result |-> r, now |-> now,
          loaded |-> ModelStatus_load(status_files[model_to_filename(m)]),
          status |-> NewStatus(status_files, m, sc, r, NnsightVersion, now)])

\* update_model_status, from its start to the end of ModelStatus.save
UpdSave(m, sc, r) ==
    /\ call = Absent
    /\ nUpdates < MaxUpdates
    /\ ~LoadRaises(status_files[model_to_filename(m)])
    /\ status_files' = SavedFiles(status_files, m, sc, r, NnsightVersion, clock)
    /\ call' = Call(m, sc, r)
    /\ nUpdates' = nUpdates + 1
    /\ UNCHANGED <<clock, history_file, foldVars, sideVars, histVars>>

\* update_model_status, from the save to its return
UpdAppend ==
    /\ call # Absent
    /\ history_file' = AppendedHistory(history_file, Get(call).model,
                                       Get(call).scenario, Get(call).result,
                                       Get(call).now)
    /\ call' = Absent
    /\ UNCHANGED <<clock, status_files, nUpdates, foldVars, sideVars, histVars>>

\* the worker calls update_model_status with any result built earlier
ApiUpdate ==
    /\ \E m \in Models, sc \in ScenarioNames, ts \in 0..clock :
          \E r \in TestResults(m, sc, ts) : UpdSave(m, sc, r)
    /\ UNCHANGED runVars

\* that call appends to the history and returns
ApiAppend == UpdAppend /\ UNCHANGED runVars

(***************************************************************************)
(* runner.py: run_single_model, with the process stopping at any point.    *)
(***************************************************************************)
\* self.scenarios: Scenario(name, model_specific, architectures)
RunScenarios ==
    <<[name |-> "basic_trace", model_specific |-> FALSE, architectures |-> {}],
      [name |-> "generation", model_specific |-> TRUE, architectures |-> {"llama"}]>>

\* the ModelInfo values given: is_available is
\* deployment_level == HOT and application_state == "RUNNING"
ModelInfos ==
    {[model_key |-> <<"a", "/", "b">>, architecture |-> "llama", is_available |-> av]
        : av \in BOOLEAN}
    \cup {[model_key |-> <<"c">>, architecture |-> "gpt2", is_available |-> av]
        : av \in BOOLEAN}

RunFileNames == {model_to_filename(mi.model_key) : mi \in ModelInfos}

\* lines 239-241, 263-265: the scenario is skipped for this model
Restricted(scenario, model) ==
    scenario.model_specific /\ model.architecture \notin scenario.architectures

\* not the result of lines 242-248: UNAVAILABLE instead of COLD
ColdResult_unavailable(model, scenario, ts) ==
    [model |-> model.model_key, scenario |-> scenario.name,
     status |-> "UNAVAILABLE", duration_ms |-> 0, error_category |-> Absent,
     details |-> Some(Str(1)), timestamp |-> ts]

\* not the result of lines 242-248: DEGRADED instead of COLD
ColdResult_degraded(model, scenario, ts) ==
    [model |-> model.model_key, scenario |-> scenario.name,
     status |-> "DEGRADED", duration_ms |-> 0, error_category |-> Absent,
     details |-> Some(Str(1)), timestamp |-> ts]

\* lines 242-248: the result built for a model that is not available
ColdResult(model, scenario, ts) ==
    [model |-> model.model_key, scenario |-> scenario.name, status |-> "COLD",
     duration_ms |-> 0, error_category |-> Absent, details |-> Some(Str(1)),
     timestamp |-> ts]

\* lines 272-278: the result built when the notebook file is missing
NotFoundResult(model, scenario, ts) ==
    [model |-> model.model_key, scenario |-> scenario.name, status |-> "FAILED",
     duration_ms |-> 0, error_category |-> Absent, details |-> Some(Str(1)),
     timestamp |-> ts]

\* results.py:245-249: the parameters determine_status accepts
DetermineStatusParams == {"success", "duration_ms", "error_text"}

\* jupyter_executor.py:356-361: the keywords run_notebook_test passes it
DetermineStatusKeywords == {"success", "duration_ms", "threshold_ms", "error_text"}

\* the call raises TypeError (unexpected keyword argument), which neither
\* run_notebook_test nor run_single_model catches
RunNotebookTestRaises == ~(DetermineStatusKeywords \subseteq DetermineStatusParams)

(***************************************************************************)
(* The Test Executor's result and its classification.  An error text is    *)
(* modelled by its length and by `found`, the set of positions in          *)
(* classify_error's pattern list whose pattern re.search finds in its      *)
(* lower-cased text.                                                       *)
(***************************************************************************)
\* classify_error's `patterns`, in order: the category of each
ErrorPatterns ==
    <<"SERIALIZATION_ERROR", "SERIALIZATION_ERROR", "TIMEOUT", "CONNECTION_ERROR",
      "AUTH_ERROR", "MODEL_NOT_LOADED", "SHAPE_MISMATCH", "VALUE_ERROR",
      "IMPORT_ERROR">>

\* a text that is not empty and in which exactly these patterns are found
ErrorText(found) == [n |-> 1, cut |-> FALSE, found |-> found]

\* the text ""
EmptyError == [n |-> 0, cut |-> FALSE, found |-> {}]

\* the texts of at most `most` patterns
ErrorTexts(most) ==
    {ErrorText(found) : found \in {S \in SUBSET (1..Len(ErrorPatterns)) :
                                       Cardinality(S) <= most}}

\* results.py, classify_error: the category of the first pattern found,
\* UNKNOWN if none is
classify_error(error_text) ==
    IF error_text.found = {} THEN "UNKNOWN"
    ELSE ErrorPatterns[Min(error_text.found)]

\* results.py, determine_status(success, duration_ms, error_text)
determine_status(success, duration_ms, error_text) ==
    IF ~success
    THEN IF TruthyText(error_text)
            /\ classify_error(Get(error_text)) = "MODEL_NOT_LOADED"
         THEN "UNAVAILABLE"
         ELSE "FAILED"
    ELSE "OK"

\* run_notebook_test's default threshold_ms
ThresholdMs == 30000

\* what execute_notebook and extract_cell_outputs hand to run_notebook_test:
\* the ExecutionResult's success, duration_ms and error, and the first cell
\* error of the executed notebook (None without one)
ExecutionResults ==
    LET durations == {0, 1, ThresholdMs + 1}
        cell_errors == {Absent} \cup {Some(t) : t \in ErrorTexts(1)}
    IN  {[success |-> TRUE, duration_ms |-> d, error |-> Absent, cell_error |-> ce]
            : d \in durations, ce \in cell_errors}
        \cup {[success |-> FALSE, duration_ms |-> d, error |-> Some(t),
               cell_error |-> ce]
                 : d \in durations, t \in ErrorTexts(MaxFound) \cup {EmptyError},
                   ce \in cell_errors}

\* jupyter_executor.py:353: error_text = cell_error or result.error
error_text_of(raw) ==
    IF TruthyText(raw.cell_error) THEN raw.cell_error ELSE raw.error

\* jupyter_executor.py:357: result.success and not cell_error
success_of(raw) == raw.success /\ ~TruthyText(raw.cell_error)

\* run_notebook_test after execute_notebook has returned `raw` (lines
\* 349-375): the TestResult it returns, or that it raises
run_notebook_test(raw, model_name, scenario_name, ts) ==
    IF RunNotebookTestRaises THEN [raised |-> TRUE]
    ELSE LET error_text == error_text_of(raw)
             status == determine_status(success_of(raw), raw.duration_ms, error_text)
             error_category ==
                 IF ~raw.success \/ TruthyText(raw.cell_error)
                 THEN Some(classify_error(IF TruthyText(error_text)
                                          THEN Get(error_text) ELSE ErrorText({})))
                 ELSE Absent
         IN  [raised |-> FALSE,
              result |-> [model |-> model_name, scenario |-> scenario_name,
                          status |-> status, duration_ms |-> raw.duration_ms,
                          error_category |-> error_category,
                          details |-> IF error_text = Absent THEN Absent
                                      ELSE Some(Str(Get(error_text).n)),
                          timestamp |-> ts]]

RunInit ==
    /\ rPc = "idle" /\ rModel = Absent /\ rIdx = 0
    /\ rResults = <<>> /\ outcomes = <<>>

\* run_single_model(model) is entered
StartRun ==
    /\ rPc \in {"idle", "returned", "raised"}
    /\ nUpdates + Len(RunScenarios) <= MaxUpdates
    /\ \E mi \in ModelInfos : rModel' = Some(mi)
    /\ rIdx' = 1
    /\ rResults' = <<>>
    /\ rPc' = "loop"
    /\ eRaw' = Absent /\ eResult' = Absent
    /\ UNCHANGED <<outcomes, storeVars, workerVars, foldVars, histVars,
                   appenderVars, writerVars, cycleVars, summaryVars, moreVars>>

\* the loop skips a scenario restricted to other architectures
RunSkip ==
    /\ rPc = "loop" /\ rIdx <= Len(RunScenarios)
    /\ Restricted(RunScenarios[rIdx], Get(rModel))
    /\ rIdx' = rIdx + 1
    /\ UNCHANGED <<rPc, rModel, rResults, outcomes, storeVars, workerVars, foldVars, sideVars, histVars>>

\* results.append(result): the result is held in memory, its update pending
Produce(result) ==
    /\ rResults' = Append(rResults, result)
    /\ outcomes' = Append(outcomes, [result |-> result, returned |-> FALSE])
    /\ rPc' = "update"
    /\ UNCHANGED <<rModel, rIdx, storeVars, workerVars, foldVars, sideVars, histVars>>

\* a model that is not available: a COLD result, no test
RunCold ==
    /\ rPc = "loop" /\ rIdx <= Len(RunScenarios)
    /\ ~Restricted(RunScenarios[rIdx], Get(rModel))
    /\ ~Get(rModel).is_available
    /\ Produce(ColdResult(Get(rModel), RunScenarios[rIdx], clock))

\* an available model whose notebook file does not exist
RunNotFound ==
    /\ rPc = "loop" /\ rIdx <= Len(RunScenarios)
    /\ ~Restricted(RunScenarios[rIdx], Get(rModel))
    /\ Get(rModel).is_available
    /\ Produce(NotFoundResult(Get(rModel), RunScenarios[rIdx], clock))

\* what the notebooks of a run come back with: a pass, a timeout, a failure
\* whose stderr says that the model is not loaded, and a failure whose
\* notebook holds a cell error
RunOutcomes ==
    {[success |-> TRUE, duration_ms |-> 1, error |-> Absent, cell_error |-> Absent],
     [success |-> FALSE, duration_ms |-> ThresholdMs + 1,
      error |-> Some(ErrorText({3})), cell_error |-> Absent],
     [success |-> FALSE, duration_ms |-> 1,
      error |-> Some(ErrorText({6})), cell_error |-> Absent],
     [success |-> FALSE, duration_ms |-> 1,
      error |-> Some(EmptyError), cell_error |-> Some(ErrorText({8}))]}

\* an available model whose notebook exists: run_notebook_test is called;
\* its result is appended to `results`, or what it raises leaves
\* run_single_model
RunNotebookTest ==
    /\ rPc = "loop" /\ rIdx <= Len(RunScenarios)
    /\ ~Restricted(RunScenarios[rIdx], Get(rModel))
    /\ Get(rModel).is_available
    /\ \E raw \in RunOutcomes :
          LET test == run_notebook_test(raw, Get(rModel).model_key,
                                        RunScenarios[rIdx].name, clock)
          IN  /\ eRaw' = Some(raw)
              /\ eResult' = Some(test)
              /\ IF test.raised
                 THEN /\ rPc' = "raised"
                      /\ rResults' = <<>>
                      /\ UNCHANGED outcomes
                 ELSE /\ rResults' = Append(rResults, test.result)
                      /\ outcomes' = Append(outcomes, [result |-> test.result,
                                                       returned |-> FALSE])
                      /\ rPc' = "update"
    /\ UNCHANGED <<rModel, rIdx, storeVars, workerVars, foldVars, histVars,
                   appenderVars, writerVars, cycleVars, summaryVars, moreVars>>

\* update_model_status(model.model_key, scenario.name, result, ...) builds
\* the new status and ModelStatus.save opens the file for writing
RunUpdOpen ==
    /\ rPc = "update"
    /\ call = Absent
    /\ nUpdates < MaxUpdates
    /\ ~LoadRaises(status_files[model_to_filename(Get(rModel).model_key)])
    /\ call' = Call(Get(rModel).model_key, RunScenarios[rIdx].name,
                    rResults[Len(rResults)])
    /\ status_files' = OpenedFiles(status_files, Get(call').status)
    /\ nUpdates' = nUpdates + 1
    /\ rPc' = "opened"
    /\ UNCHANGED <<clock, history_file, foldVars, sideVars, histVars, rModel, rIdx, rResults, outcomes>>

\* ModelStatus.save writes the record and closes the file
RunUpdWrite ==
    /\ rPc = "opened"
    /\ status_files' = WrittenFiles(status_files, Get(call).status)
    /\ rPc' = "saved"
    /\ UNCHANGED <<clock, history_file, workerVars, foldVars, sideVars, histVars, rModel, rIdx,
                   rResults, outcomes>>

\* it appends to the history and returns; the loop goes on
RunUpdAppend ==
    /\ rPc = "saved"
    /\ UpdAppend
    /\ outcomes' = [outcomes EXCEPT ![Len(outcomes)].returned = TRUE]
    /\ rIdx' = rIdx + 1
    /\ rPc' = "loop"
    /\ UNCHANGED <<rModel, rResults>>

\* return results
RunReturn ==
    /\ rPc = "loop" /\ rIdx > Len(RunScenarios)
    /\ rPc' = "returned"
    /\ UNCHANGED <<rModel, rIdx, rResults, outcomes, storeVars, workerVars, foldVars, sideVars, histVars>>

\* the process stops (killed, power loss): memory is lost, files stay
Crash ==
    /\ rPc \in {"loop", "update", "opened", "saved"}
    /\ rPc' = "crashed"
    /\ rResults' = <<>>
    /\ call' = Absent
    /\ UNCHANGED <<rModel, rIdx, outcomes, nUpdates, storeVars, foldVars, sideVars, histVars>>

RunStoreInit ==
    /\ clock = 0
    /\ status_files = [f \in RunFileNames |-> Absent]
    /\ history_file = <<>>

RunNext ==
    \/ Tick
    \/ StartRun
    \/ RunSkip
    \/ RunCold
    \/ RunNotFound
    \/ RunNotebookTest
    \/ RunUpdOpen
    \/ RunUpdWrite
    \/ RunUpdAppend
    \/ RunReturn
    \/ Crash

(***************************************************************************)
(* The HistoryStore used on its own: entries are appended one by one or in *)
(* batches, the file is loaded and pruned, and time passes by ticks and by *)
(* days.                                                                   *)
(***************************************************************************)
\* what a caller puts in an entry besides its timestamp: a pass from this
\* host, a failure with details too long for the history, and a record
\* whose optional texts are empty
HistPayloads ==
    { [scenario |-> "basic_trace", status |-> "OK", duration_ms |-> 1,
       error_category |-> Absent, details |-> Absent,
       host |-> Some(Hostname), user |-> Some(Username)],
      [scenario |-> "generation", status |-> "FAILED", duration_ms |-> 2,
       error_category |-> Some("TIMEOUT"), details |-> Some(Str(HistDetailsMax + 1)),
       host |-> Absent, user |-> Absent],
      [scenario |-> "basic_trace", status |-> "SLOW", duration_ms |-> 0,
       error_category |-> Some(""), details |-> Some(Str(0)),
       host |-> Some(""), user |-> Some("")] }

\* HistoryEntry objects stamped now.isoformat() + "Z" (runner.py:211)
HistEntries(now) ==
    { [timestamp |-> PlusZ(isoformat(now)), model |-> m, scenario |-> p.scenario,
       status |-> p.status, duration_ms |-> p.duration_ms,
       error_category |-> p.error_category, details |-> p.details,
       host |-> p.host, user |-> p.user] : m \in Models, p \in HistPayloads }

HistInit == hAppended = <<>> /\ hLoaded = Absent /\ hPruned = Absent

\* a day passes between two uses of the store
DayPasses ==
    /\ clock \div DayTicks < MaxDays - 1
    /\ clock' = clock + DayTicks
    /\ UNCHANGED <<status_files, history_file, workerVars, foldVars, sideVars, runVars, histVars>>

\* store.append(entry)
HistAppend ==
    /\ Len(history_file) < MaxHist
    /\ \E entry \in HistEntries(clock) :
          /\ history_file' = append(history_file, entry)
          /\ hAppended' = Append(hAppended, entry)
    /\ hLoaded' = Absent /\ hPruned' = Absent
    /\ UNCHANGED <<clock, status_files, workerVars, foldVars, sideVars, runVars>>

\* store.append_many(entries)
HistAppendMany ==
    /\ \E n \in 0..(MaxHist - Len(history_file)) :
       \E entries \in [1..n -> HistEntries(clock)] :
          /\ history_file' = append_many(history_file, entries)
          /\ hAppended' = hAppended \o entries
    /\ hLoaded' = Absent /\ hPruned' = Absent
    /\ UNCHANGED <<clock, status_files, workerVars, foldVars, sideVars, runVars>>

\* store.load(days, model, scenario)
HistLoad ==
    /\ \E days \in 1..MaxDays :
       \E model \in {Absent} \cup {Some(m) : m \in Models} :
       \E scenario \in {Absent, Some("generation"), Some("")} :
          hLoaded' = Some([days |-> days, model |-> model, scenario |-> scenario,
                           now |-> clock,
                           raised |-> ReadRaises(history_file),
                           entries |-> IF ReadRaises(history_file) THEN <<>>
                                       ELSE load(history_file, days, model,
                                                 scenario, clock)])
    /\ UNCHANGED <<hAppended, hPruned, storeVars, workerVars, foldVars, sideVars, runVars>>

\* store.prune(keep_days)
HistPrune ==
    /\ \E keep_days \in 1..MaxDays :
          IF ReadRaises(history_file)
          THEN /\ history_file' = history_file
               /\ hPruned' = Some([keep_days |-> keep_days, now |-> clock,
                                   before |-> history_file,
                                   raised |-> TRUE, removed |-> 0])
          ELSE /\ history_file' = prune(history_file, keep_days, clock)
               /\ hPruned' = Some([keep_days |-> keep_days, now |-> clock,
                                   before |-> history_file, raised |-> FALSE,
                                   removed |-> PruneRemoved(history_file,
                                                            keep_days, clock)])
    /\ hLoaded' = Absent
    /\ UNCHANGED <<hAppended, clock, status_files, workerVars, foldVars, sideVars, runVars>>

\* lines that no append wrote: an empty line, a line cut short (no JSON),
\* JSON that is no object, an object without its "d", an object whose
\* "ts" is a number
DamagedLines(now) ==
    { [kind |-> "blank", data |-> <<>>],
      [kind |-> "invalid", data |-> <<>>],
      [kind |-> "nonobject", data |-> <<>>],
      [kind |-> "object",
       data |-> [ts |-> PlusZ(isoformat(now)), m |-> <<"a", "/", "b">>,
                 s |-> "basic_trace", st |-> "OK"]],
      [kind |-> "object",
       data |-> [ts |-> [number |-> now], m |-> <<"a", "/", "b">>,
                 s |-> "basic_trace", st |-> "OK", d |-> 1]] }

\* the log is damaged: such a line gets into the file
HistDamage ==
    /\ Len(history_file) < MaxHist
    /\ \E line \in DamagedLines(clock) : history_file' = Append(history_file, line)
    /\ hLoaded' = Absent /\ hPruned' = Absent
    /\ UNCHANGED <<hAppended, clock, status_files, workerVars, foldVars, sideVars, runVars>>

\* a store that is appended to and loaded, never pruned
AppendNext == Tick \/ DayPasses \/ HistAppend \/ HistAppendMany \/ HistLoad

HistNext ==
    Tick \/ DayPasses \/ HistAppend \/ HistAppendMany \/ HistLoad \/ HistPrune
    \/ HistDamage

(***************************************************************************)
(* Concurrent invocations appending to the same history file.  open(path,  *)
(* "a") opens with O_APPEND behind a buffered text writer: f.write(line)   *)
(* puts the line in the writer's buffer, and the buffer is handed to the   *)
(* operating system in write calls that each carry whole f.write texts,    *)
(* when it fills and when the with block closes the file.                  *)
(***************************************************************************)
\* the invocations running at once
Appenders == {1, 2}

\* a write at file position pos, as a file opened without O_APPEND does it:
\* not the write of a file opened with "a"
os_write_at(lines, pos, data) ==
    SubSeq(lines, 1, pos) \o data
        \o SubSeq(lines, pos + Len(data) + 1, Len(lines))

\* a write call on a file opened with "a" (history.py:134, 139): the data
\* goes to the end of the file as it is at the time of the call, wherever
\* the file ended when it was opened
os_write(lines, pos, data) == lines \o data

AppenderInit ==
    /\ aPc = [p \in Appenders |-> "idle"]
    /\ aPos = [p \in Appenders |-> 0]
    /\ aTodo = [p \in Appenders |-> <<>>]
    /\ aBuf = [p \in Appenders |-> <<>>]

\* an invocation enters append(entry) or append_many(entries): the file is
\* opened
AppendOpen(p) ==
    /\ aPc[p] = "idle"
    /\ \E n \in 0..(MaxHist - Len(hAppended)) :
       \E entries \in [1..n -> HistEntries(clock)] :
          /\ aTodo' = [aTodo EXCEPT ![p] = entries]
          /\ hAppended' = hAppended \o entries
    /\ aPc' = [aPc EXCEPT ![p] = "open"]
    /\ aPos' = [aPos EXCEPT ![p] = Len(history_file)]
    /\ hLoaded' = Absent
    /\ UNCHANGED <<aBuf, hPruned, storeVars, workerVars, foldVars, runVars,
                   exceptAppender>>

\* f.write(entry.to_json_line() + "\n"): the line goes to the buffer
AppendWrite(p) ==
    /\ aPc[p] = "open"
    /\ aTodo[p] # <<>>
    /\ aBuf' = [aBuf EXCEPT ![p] = append(aBuf[p], Head(aTodo[p]))]
    /\ aTodo' = [aTodo EXCEPT ![p] = Tail(aTodo[p])]
    /\ UNCHANGED <<aPc, aPos, histVars, storeVars, workerVars, foldVars, runVars,
                   exceptAppender>>

\* the buffer is full: its lines are written to the file
AppendFlush(p) ==
    /\ aPc[p] = "open"
    /\ aBuf[p] # <<>>
    /\ history_file' = os_write(history_file, aPos[p], aBuf[p])
    /\ aPos' = [aPos EXCEPT ![p] = aPos[p] + Len(aBuf[p])]
    /\ aBuf' = [aBuf EXCEPT ![p] = <<>>]
    /\ hLoaded' = Absent
    /\ UNCHANGED <<aPc, aTodo, hAppended, hPruned, clock, status_files,
                   workerVars, foldVars, runVars,
                   exceptAppender>>

\* the with block ends: what is left in the buffer is written and the file
\* is closed
AppendClose(p) ==
    /\ aPc[p] = "open"
    /\ aTodo[p] = <<>>
    /\ history_file' = os_write(history_file, aPos[p], aBuf[p])
    /\ aBuf' = [aBuf EXCEPT ![p] = <<>>]
    /\ aPc' = [aPc EXCEPT ![p] = "idle"]
    /\ hLoaded' = Absent
    /\ UNCHANGED <<aPos, aTodo, hAppended, hPruned, clock, status_files,
                   workerVars, foldVars, runVars,
                   exceptAppender>>

Opens == \E p \in Appenders : AppendOpen(p)
Writes == \E p \in Appenders : AppendWrite(p)
Flushes == \E p \in Appenders : AppendFlush(p)
Closes == \E p \in Appenders : AppendClose(p)

\* store.load(days) while the invocations run or after them
ConcurrentLoad ==
    /\ hLoaded' = Some([days |-> MaxDays, model |-> Absent, scenario |-> Absent,
                        now |-> clock,
                        raised |-> ReadRaises(history_file),
                        entries |-> IF ReadRaises(history_file) THEN <<>>
                                    ELSE load(history_file, MaxDays, Absent,
                                              Absent, clock)])
    /\ UNCHANGED <<hAppended, hPruned, storeVars, workerVars, foldVars, runVars,
                   sideVars>>

ConcurrentNext == Opens \/ Writes \/ Flushes \/ Closes \/ ConcurrentLoad

(***************************************************************************)
(* Concurrent invocations running update_model_status on the same model:   *)
(* each loads the status file, builds the new ModelStatus, saves it with   *)
(* open(path, "w") and f.write, and appends to the history.  open(path,    *)
(* "w") truncates the file at once; the text reaches the file, at this     *)
(* writer's own file position 0, when the with block closes.               *)
(***************************************************************************)
Writers == {1, 2}

\* the model both invocations test
SharedModel == <<"a", "/", "b">>

WriterInit ==
    /\ uPc = [p \in Writers |-> "idle"]
    /\ uCall = [p \in Writers |-> Absent]
    /\ uWritten = {}

\* the text in the file after a writer has written `text` at position 0 of
\* a file that another writer has written since this writer truncated it:
\* `text` alone when it is at least as long as what was there, `text`
\* followed by the rest of the other text when it is shorter (which of the
\* two depends on the lengths of the two JSON texts)
Overwritten(text) == {text, TornText}

\* update_model_status, line 172: now = datetime.utcnow()
WriterNow(p) ==
    /\ uPc[p] = "idle"
    /\ nUpdates < MaxUpdates
    /\ nUpdates' = nUpdates + 1
    /\ uCall' = [uCall EXCEPT ![p] = Some([now |-> clock])]
    /\ uPc' = [uPc EXCEPT ![p] = "timed"]
    /\ UNCHANGED <<uWritten, call, storeVars, foldVars, runVars, histVars,
                   exceptWriter>>

\* update_model_status, lines 175-204: the file is loaded (json.load raises
\* on a text that is no JSON document) and the new status is built
WriterLoad(p) ==
    /\ uPc[p] = "timed"
    /\ IF LoadRaises(status_files[model_to_filename(SharedModel)])
       THEN /\ uPc' = [uPc EXCEPT ![p] = "raised"]
            /\ UNCHANGED uCall
       ELSE /\ uPc' = [uPc EXCEPT ![p] = "built"]
            /\ \E sc \in ScenarioNames :
               \E r \in TestResults(SharedModel, sc, Get(uCall[p]).now) :
                  uCall' = [uCall EXCEPT ![p] =
                               CallAt(SharedModel, sc, r, Get(uCall[p]).now)]
    /\ UNCHANGED <<uWritten, workerVars, storeVars, foldVars, runVars, histVars,
                   exceptWriter>>

\* ModelStatus.save: open(path, "w")
WriterOpen(p) ==
    /\ uPc[p] = "built"
    /\ status_files' = OpenedFiles(status_files, Get(uCall[p]).status)
    /\ uPc' = [uPc EXCEPT ![p] = "opened"]
    /\ UNCHANGED <<uCall, uWritten, clock, history_file, workerVars, foldVars,
                   runVars, histVars, exceptWriter>>

\* ModelStatus.save: f.write(self.to_json()) and the end of the with block
WriterWrite(p) ==
    /\ uPc[p] = "opened"
    /\ LET status == Get(uCall[p]).status
           name == model_to_filename(status.model)
           text == ModelStatus_to_dict(status)
       IN  /\ IF Get(status_files[name]) = EmptyText
              THEN status_files' = WrittenFiles(status_files, status)
              ELSE \E t \in Overwritten(text) :
                      status_files' = [status_files EXCEPT ![name] = Some(t)]
           /\ uWritten' = uWritten \cup {text}
    /\ uPc' = [uPc EXCEPT ![p] = "saved"]
    /\ UNCHANGED <<uCall, clock, history_file, workerVars, foldVars, runVars,
                   histVars, exceptWriter>>

\* update_model_status, lines 210-223: the history entry is appended and
\* the call returns
WriterAppend(p) ==
    /\ uPc[p] = "saved"
    /\ LET c == Get(uCall[p])
       IN  history_file' = AppendedHistory(history_file, c.model, c.scenario,
                                           c.result, c.now)
    /\ uPc' = [uPc EXCEPT ![p] = "idle"]
    /\ uCall' = [uCall EXCEPT ![p] = Absent]
    /\ UNCHANGED <<uWritten, clock, status_files, workerVars, foldVars, runVars,
                   histVars, exceptWriter>>

WriterNows == \E p \in Writers : WriterNow(p)
WriterLoads == \E p \in Writers : WriterLoad(p)
WriterOpens == \E p \in Writers : WriterOpen(p)
WriterWrites == \E p \in Writers : WriterWrite(p)
WriterAppends == \E p \in Writers : WriterAppend(p)

WritersNext ==
    Tick \/ WriterNows \/ WriterLoads \/ WriterOpens \/ WriterWrites \/ WriterAppends

(***************************************************************************)
(* Cycle mode: every invocation builds a MonitorRunner, whose CycleState   *)
(* reads .cycle_state.json, and run(cycle=True) picks one model from the   *)
(* list with next_model and tests it.                                      *)
(***************************************************************************)
\* the fixed list of n models given to run
CycleModels(n) == [i \in 1..n |-> [model_key |-> <<"m", i>>]]

\* not CycleState._load: the file is ignored and every process starts at -1
CycleState_load_fresh(file) == -1

\* CycleState.__init__ and _load: last_index from the file, -1 without one
CycleState_load(file) ==
    IF file = Absent THEN -1 ELSE Get(file).last_index

\* not the new last_index of next_model: the index does not wrap
next_index_unwrapped(last_index, models) == last_index + 1

\* CycleState.next_model: the new last_index
next_index(last_index, models) == (last_index + 1) % Len(models)

CycleInit ==
    /\ cN = 0
    /\ cFile = Absent
    /\ cPc = "none"
    /\ cLast = -1
    /\ cSelected = <<>>
    /\ cTested = <<>>

\* an invocation starts: MonitorRunner.__init__ builds the CycleState.  The
\* first invocation fixes the list of models that all are given.
CycleConstruct ==
    /\ cPc = "none"
    /\ cN' \in IF cN = 0 THEN 1..MaxModels ELSE {cN}
    /\ cLast' = CycleState_load(cFile)
    /\ cPc' = "ready"
    /\ UNCHANGED <<cFile, cSelected, cTested, exceptCycle>>

\* run(models, cycle=True), lines 360-364: next_model advances the index,
\* saves it and returns the model
CycleSelect ==
    /\ cPc = "ready"
    /\ Len(cSelected) < MaxRuns
    /\ LET models == CycleModels(cN)
           index == next_index(cLast, models)
       IN  /\ cLast' = index
           /\ cFile' = Some([last_index |-> index])
           /\ cSelected' = Append(cSelected, [before |-> cFile, index |-> index,
                                              model |-> models[index + 1]])
    /\ cPc' = "selected"
    /\ UNCHANGED <<cN, cTested, exceptCycle>>

\* run, lines 392-400: run_single_model for each model of `models`, now the
\* one selected; it returns or raises
CycleTest ==
    /\ cPc = "selected"
    /\ \E returned \in BOOLEAN :
          cTested' = Append(cTested, [models |-> <<cSelected[Len(cSelected)].model>>,
                                      returned |-> returned])
    /\ cPc' = "tested"
    /\ UNCHANGED <<cN, cFile, cLast, cSelected, exceptCycle>>

\* the same MonitorRunner is given another run
CycleAgain ==
    /\ cPc = "tested"
    /\ cTested[Len(cTested)].returned
    /\ cPc' = "ready"
    /\ UNCHANGED <<cN, cFile, cLast, cSelected, cTested, exceptCycle>>

\* the process ends
CycleExit ==
    /\ cPc = "tested"
    /\ cPc' = "none"
    /\ UNCHANGED <<cN, cFile, cLast, cSelected, cTested, exceptCycle>>

CycleNext == CycleConstruct \/ CycleSelect \/ CycleTest \/ CycleAgain \/ CycleExit

(***************************************************************************)
(* CycleState.next_model called with lists of any length, the empty one    *)
(* included, by processes that follow one another.                         *)
(***************************************************************************)
\* CycleState(state_file): last_index is read from the file
StateConstruct ==
    /\ cPc = "none"
    /\ cLast' = CycleState_load(cFile)
    /\ cPc' = "ready"
    /\ UNCHANGED <<cN, cFile, cSelected, cTested, exceptCycle>>

\* models[index], None where Python raises IndexError
ModelAt(models, index) ==
    IF index + 1 \in DOMAIN models THEN Some(models[index + 1]) ELSE Absent

\* next_model(models), lines 83-89, with a list of n models: it raises
\* ValueError on an empty list, else it sets last_index, saves it and
\* returns models[last_index]
NextModel ==
    /\ cPc = "ready"
    /\ Len(cSelected) < MaxRuns
    /\ \E n \in 0..MaxModels :
          LET models == CycleModels(n) IN
          /\ cN' = n
          /\ IF models = <<>>
             THEN /\ cPc' = "raised"
                  /\ cSelected' = Append(cSelected,
                         [before |-> cFile, last |-> cLast, index |-> cLast,
                          model |-> Absent])
                  /\ UNCHANGED <<cLast, cFile>>
             ELSE /\ cPc' = "returned"
                  /\ cLast' = next_index(cLast, models)
                  /\ cFile' = Some([last_index |-> cLast'])
                  /\ cSelected' = Append(cSelected,
                         [before |-> cFile, last |-> cLast, index |-> cLast',
                          model |-> ModelAt(models, cLast')])
    /\ UNCHANGED <<cTested, exceptCycle>>

\* the caller goes on with the same CycleState
StateAgain ==
    /\ cPc \in {"returned", "raised"}
    /\ cPc' = "ready"
    /\ UNCHANGED <<cN, cFile, cLast, cSelected, cTested, exceptCycle>>

\* the process ends
StateExit ==
    /\ cPc \in {"ready", "returned", "raised"}
    /\ cPc' = "none"
    /\ UNCHANGED <<cN, cFile, cLast, cSelected, cTested, exceptCycle>>

StateNext == StateConstruct \/ NextModel \/ StateAgain \/ StateExit

(***************************************************************************)
(* The Test Executor on its own: a notebook is executed and                *)
(* run_notebook_test classifies what came back.                            *)
(***************************************************************************)
ExecInit == eRaw = Absent /\ eResult = Absent

\* execute_notebook returns and the cell outputs are extracted
ExecuteNotebook ==
    /\ eRaw = Absent
    /\ \E raw \in ExecutionResults : eRaw' = Some(raw)
    /\ UNCHANGED <<eResult, exceptExec>>

\* the rest of run_notebook_test
ClassifyResult ==
    /\ eRaw # Absent /\ eResult = Absent
    /\ eResult' = Some(run_notebook_test(Get(eRaw), SharedModel, "basic_trace", clock))
    /\ UNCHANGED <<eRaw, exceptExec>>

\* the next test
NextTest ==
    /\ eResult # Absent
    /\ eRaw' = Absent /\ eResult' = Absent
    /\ UNCHANGED exceptExec

ExecNext == ExecuteNotebook \/ ClassifyResult \/ NextTest

(***************************************************************************)
(* The dashboard's daily summary of a history that the monitor appends to  *)
(* over hours and days.                                                    *)
(***************************************************************************)
\* the models whose results are in the history
SummaryModels == {<<"a", "/", "b">>, <<"c">>}

\* the entries appended at `now`: any payload for the first model, a pass
\* for the second
SummaryEntries(now) ==
    {e \in {[timestamp |-> PlusZ(isoformat(now)), model |-> m,
             scenario |-> p.scenario, status |-> p.status,
             duration_ms |-> p.duration_ms, error_category |-> p.error_category,
             details |-> p.details, host |-> p.host, user |-> p.user]
               : m \in SummaryModels, p \in HistPayloads}
        : e.model = <<"a", "/", "b">> \/ e.status = "OK"}

SummaryInit == sSummary = Absent

\* an hour passes
HourPasses ==
    /\ (clock % DayTicks) \div HourTicks < MaxHours
    /\ clock' = clock + HourTicks
    /\ sSummary' = Absent
    /\ UNCHANGED <<status_files, history_file, exceptSummary>>

\* the rest of a day passes: it is EpochHour o'clock UTC again
NextDay ==
    /\ clock \div DayTicks < MaxDays - 1
    /\ clock' = (clock \div DayTicks + 1) * DayTicks
    /\ sSummary' = Absent
    /\ UNCHANGED <<status_files, history_file, exceptSummary>>

\* update_model_status appends an entry to the history
SummaryAppend ==
    /\ Len(history_file) < MaxHist
    /\ \E entry \in SummaryEntries(clock) :
          history_file' = append(history_file, entry)
    /\ sSummary' = Absent
    /\ UNCHANGED <<clock, status_files, exceptSummary>>

\* an update_model_status that read its now an hour ago appends its entry
\* (now is read at line 172, the entry is appended at line 221; another
\* invocation may have appended in between)
SummaryAppendLate ==
    /\ Len(history_file) < MaxHist
    /\ clock % DayTicks >= HourTicks
    /\ \E entry \in SummaryEntries(clock - HourTicks) :
          history_file' = append(history_file, entry)
    /\ sSummary' = Absent
    /\ UNCHANGED <<clock, status_files, exceptSummary>>

\* the dashboard calls get_daily_summary(days)
Summarize ==
    /\ sSummary = Absent
    /\ \E days \in 1..MaxDays :
          LET entries == load(history_file, days, Absent, Absent, clock)
          IN  sSummary' = Some([days |-> days, now |-> clock,
                                entries |-> entries,
                                daily |-> Daily(entries),
                                summary |-> get_daily_summary(history_file, days,
                                                              clock)])
    /\ UNCHANGED <<storeVars, exceptSummary>>

SummaryNext ==
    HourPasses \/ NextDay \/ SummaryAppend \/ SummaryAppendLate \/ Summarize

(***************************************************************************)
(* The file names of the current-state records: get_model_status_path      *)
(* (runner.py:146-148) turns a model identifier into a file name,          *)
(* filename_to_model turns a file name back.                               *)
(***************************************************************************)
\* the characters of a model identifier
ModelChars == {"a", "/", ":", "_", "-"}

ModelNames ==
    UNION {[1..n -> ModelChars] : n \in 1..MaxLen}

NameInit ==
    /\ nModel = Absent
    /\ nFile = Absent
    /\ nBack = Absent
    /\ nPrev = Absent

\* model_to_filename(model_name)
ToFilename ==
    /\ nModel # Absent => nBack # Absent
    /\ \E model_name \in ModelNames :
          /\ nModel' = Some(model_name)
          /\ nFile' = Some(model_to_filename(model_name))
    /\ nBack' = Absent
    /\ nPrev' = IF nModel = Absent THEN nPrev
                ELSE Some([model |-> Get(nModel), file |-> Get(nFile)])
    /\ UNCHANGED exceptName

\* filename_to_model(filename) on the name of a current-state file
ToModel ==
    /\ nFile # Absent
    /\ nBack = Absent
    /\ nBack' = Some(filename_to_model(Get(nFile)))
    /\ UNCHANGED <<nModel, nFile, nPrev, exceptName>>

NameNext == ToFilename \/ ToModel

(***************************************************************************)
(* run_monitor.py: the exit code main returns for the MonitorRun that      *)
(* runner.run returned.                                                    *)
(***************************************************************************)
\* s.value.lower()
Lower(s) ==
    CASE s = "OK" -> "ok"
      [] s = "SLOW" -> "slow"
      [] s = "DEGRADED" -> "degraded"
      [] s = "FAILED" -> "failed"
      [] s = "UNAVAILABLE" -> "unavailable"
      [] s = "COLD" -> "cold"

\* MonitorRun.summary, results.py:192-199
MonitorRun_summary(run) ==
    [k \in {Lower(s) : s \in Status} \cup {"total"} |->
        IF k = "total" THEN Len(run.tests)
        ELSE Cardinality({i \in 1..Len(run.tests) : Lower(run.tests[i].status) = k})]

\* not the end of main: a DEGRADED result counts as a failure too
exit_code_degraded(result) ==
    LET summary == MonitorRun_summary(result)
    IN  IF summary["failed"] > 0 \/ summary["unavailable"] > 0
           \/ summary["degraded"] > 0
        THEN 1 ELSE 0

\* run_monitor.py:400-404: the value main returns after a run
exit_code(result) ==
    LET summary == MonitorRun_summary(result)
    IN  IF summary["failed"] > 0 \/ summary["unavailable"] > 0 THEN 1 ELSE 0

\* the MonitorRun values runner.run returns: up to MaxLen results of any
\* status
MonitorRuns ==
    {[timestamp |-> 0, nnsight_version |-> NnsightVersion,
      tests |-> [i \in 1..Len(st) |->
                  [model |-> <<"c">>, scenario |-> "basic_trace",
                   status |-> st[i], duration_ms |-> 0,
                   error_category |-> Absent, details |-> Absent,
                   timestamp |-> 0]]]
        : st \in UNION {[1..n -> Status] : n \in 0..MaxLen}}

ExitInit ==
    /\ xResult = Absent
    /\ xExit = Absent

\* result = runner.run(...)
MainRun ==
    /\ xResult # Absent => xExit # Absent
    /\ \E result \in MonitorRuns : xResult' = Some(result)
    /\ xExit' = Absent
    /\ UNCHANGED exceptExit

\* main returns, and sys.exit(main()) ends the process with that value
MainReturn ==
    /\ xResult # Absent
    /\ xExit = Absent
    /\ xExit' = Some(exit_code(Get(xResult)))
    /\ UNCHANGED <<xResult, exceptExit>>

ExitNext == MainRun \/ MainReturn

(***************************************************************************)
(* run_monitor.py and runner.py: a full sweep.  main fetches the status,   *)
(* builds the MonitorRunner and calls runner.run(models=None), which       *)
(* fetches the status itself, selects the models and calls                 *)
(* run_single_model for each of them.                                      *)
(***************************************************************************)
MaxSweeps == 2
MaxSelected == 2

\* the lists get_test_models selects from a status: up to MaxSelected
\* models of different keys
SelectedModels ==
    {ms \in UNION {[1..n -> ModelInfos] : n \in 0..MaxSelected} :
        \A i, j \in 1..Len(ms) : ms[i].model_key = ms[j].model_key => i = j}

\* what requests.get meets: an answer with the deployments, an answer with
\* an HTTP error status and no deployments, no answer at all
Responses ==
    {[error |-> "none", deployments |-> ms] : ms \in SelectedModels}
    \cup {[error |-> "http", deployments |-> <<>>],
          [error |-> "connection", deployments |-> <<>>]}

\* not fetch_ndif_status: without response.raise_for_status()
fetch_ndif_status_unchecked(response) ==
    IF response.error = "connection"
    THEN [raised |-> TRUE, status |-> <<>>]
    ELSE [raised |-> FALSE, status |-> response.deployments]

\* fetch_ndif_status, models.py:121-125: requests.get raises when there is
\* no answer, raise_for_status when the answer is an HTTP error
fetch_ndif_status(response) ==
    IF response.error # "none"
    THEN [raised |-> TRUE, status |-> <<>>]
    ELSE [raised |-> FALSE, status |-> response.deployments]

\* the exit status of a process that an exception leaves
UncaughtExit == 1

SweepInit ==
    /\ wPc = "none"
    /\ wSweeps = 0
    /\ wMainFetch = FALSE
    /\ wResponse = Absent
    /\ wModels = <<>>
    /\ wIdx = 0
    /\ wResults = <<>>
    /\ wBefore = Absent
    /\ wRun = Absent
    /\ wExit = Absent

\* the files of the results directory, and what has been done to them
Durable ==
    [status_files |-> status_files, history_file |-> history_file,
     cycle_file |-> cFile, outcomes |-> Len(outcomes), updates |-> nUpdates,
     now |-> clock]

\* main, run_monitor.py:319-380: its own fetch succeeds or its failure is
\* caught and printed, the MonitorRunner is built and run is entered
SweepStart ==
    /\ wPc \in {"none", "returned", "aborted", "raised"}
    /\ wSweeps < MaxSweeps
    /\ wSweeps' = wSweeps + 1
    /\ wMainFetch' \in BOOLEAN
    /\ wPc' = "fetch"
    /\ wResponse' = Absent
    /\ wModels' = <<>> /\ wIdx' = 0 /\ wResults' = <<>>
    /\ wBefore' = Some(Durable)
    /\ wRun' = Absent /\ wExit' = Absent
    /\ rPc' = "idle" /\ rModel' = Absent /\ rIdx' = 0 /\ rResults' = <<>>
    /\ eRaw' = Absent /\ eResult' = Absent
    /\ UNCHANGED <<outcomes, storeVars, exceptSweep>>

\* run, runner.py:337-352: fetch_ndif_status and get_test_models; what
\* fetch_ndif_status raises leaves run and main
SweepFetch ==
    /\ wPc = "fetch"
    /\ \E response \in Responses :
          LET fetched == fetch_ndif_status(response)
          IN  /\ wResponse' = Some(response)
              /\ IF fetched.raised
                 THEN /\ wPc' = "aborted"
                      /\ wExit' = Some(UncaughtExit)
                      /\ UNCHANGED <<wModels, wIdx>>
                 ELSE /\ wPc' = "loop"
                      /\ wModels' = fetched.status
                      /\ wIdx' = 1
                      /\ UNCHANGED wExit
    /\ UNCHANGED <<wSweeps, wMainFetch, wResults, wBefore, wRun, runVars, execVars,
                   storeVars, exceptSweep>>

\* for model in models: run_single_model(model) is entered
SweepModel ==
    /\ wPc = "loop" /\ wIdx <= Len(wModels)
    /\ rPc = "idle"
    /\ rModel' = Some(wModels[wIdx])
    /\ rIdx' = 1
    /\ rResults' = <<>>
    /\ rPc' = "loop"
    /\ UNCHANGED <<outcomes, sweepVars, execVars, storeVars, exceptSweep>>

\* results.extend(model_results)
SweepExtend ==
    /\ wPc = "loop"
    /\ rPc = "returned"
    /\ wResults' = wResults \o rResults
    /\ wIdx' = wIdx + 1
    /\ rPc' = "idle"
    /\ UNCHANGED <<rModel, rIdx, rResults, outcomes, wPc, wSweeps, wMainFetch,
                   wResponse, wModels, wBefore, wRun, wExit, execVars, storeVars,
                   exceptSweep>>

\* what run_single_model raised leaves run (try/finally, no except) and main
SweepRaised ==
    /\ wPc = "loop"
    /\ rPc = "raised"
    /\ wPc' = "raised"
    /\ wExit' = Some(UncaughtExit)
    /\ UNCHANGED <<runVars, wSweeps, wMainFetch, wResponse, wModels, wIdx, wResults,
                   wBefore, wRun, execVars, storeVars, exceptSweep>>

\* run returns MonitorRun(tests=results) and main its exit code
SweepReturn ==
    /\ wPc = "loop" /\ wIdx > Len(wModels)
    /\ rPc = "idle"
    /\ LET run_result == [timestamp |-> Get(wBefore).now,
                          nnsight_version |-> NnsightVersion,
                          tests |-> wResults]
       IN  /\ wRun' = Some(run_result)
           /\ wExit' = Some(exit_code(run_result))
    /\ wPc' = "returned"
    /\ UNCHANGED <<runVars, wSweeps, wMainFetch, wResponse, wModels, wIdx, wResults,
                   wBefore, execVars, storeVars, exceptSweep>>

(***************************************************************************)
(* history.py: the calls of the HistoryStore on a history file that may    *)
(* not exist.  open(path, "r") raises FileNotFoundError on a missing file, *)
(* open(path, "a") creates it.                                             *)
(***************************************************************************)
\* not HistoryStore.load: without the test of lines 159-160, the open of
\* line 166 raises on a missing file
HistoryStore_load_unguarded(exists, lines, days, now) ==
    IF ~exists THEN [raised |-> TRUE, entries |-> <<>>]
    ELSE [raised |-> ReadRaises(lines),
          entries |-> IF ReadRaises(lines) THEN <<>>
                      ELSE load(lines, days, Absent, Absent, now)]

\* HistoryStore.load(days), history.py:145-186
HistoryStore_load(exists, lines, days, now) ==
    IF ~exists THEN [raised |-> FALSE, entries |-> <<>>]
    ELSE [raised |-> ReadRaises(lines),
          entries |-> IF ReadRaises(lines) THEN <<>>
                      ELSE load(lines, days, Absent, Absent, now)]

\* HistoryStore.prune(keep_days), history.py:188-219: what it returns and
\* the file it leaves
HistoryStore_prune(exists, lines, keep_days, now) ==
    IF ~exists
    THEN [raised |-> FALSE, removed |-> 0, exists |-> FALSE, lines |-> lines]
    ELSE IF ReadRaises(lines)
    THEN [raised |-> TRUE, removed |-> 0, exists |-> TRUE, lines |-> lines]
    ELSE [raised |-> FALSE, removed |-> PruneRemoved(lines, keep_days, now),
          exists |-> TRUE, lines |-> prune(lines, keep_days, now)]

\* HistoryStore.get_daily_summary(days), history.py:221-286
HistoryStore_get_daily_summary(exists, lines, days, now) ==
    LET loaded == HistoryStore_load(exists, lines, days, now)
    IN  [raised |-> loaded.raised,
         summary |-> IF loaded.raised THEN <<>>
                     ELSE Summary(Daily(loaded.entries))]

RECURSIVE SortedDescending(_)
\* list.sort(key=lambda e: e.timestamp, reverse=True): the timestamps are
\* compared as texts, and entries of equal timestamp keep their order
SortedDescending(entries) ==
    IF entries = <<>> THEN <<>>
    ELSE LET n == Len(entries)
             e == entries[n]
             rest == SortedDescending(SubSeq(entries, 1, n - 1))
             before == SelectSeq(rest, LAMBDA x : ~StrLess(x.timestamp, e.timestamp))
             after == SelectSeq(rest, LAMBDA x : StrLess(x.timestamp, e.timestamp))
         IN  before \o <<e>> \o after

\* failures[:limit]
Prefix(list, limit) == SubSeq(list, 1, Min({limit, Len(list)}))

\* not get_recent_failures: the first `limit` failures in storage order
get_recent_failures_unsorted(exists, lines, days, limit, now) ==
    LET loaded == HistoryStore_load(exists, lines, days, now)
        failures == SelectSeq(loaded.entries,
                        LAMBDA e : e.status \in {"FAILED", "UNAVAILABLE", "DEGRADED"})
    IN  [raised |-> loaded.raised,
         failures |-> IF loaded.raised THEN <<>> ELSE Prefix(failures, limit)]

\* HistoryStore.get_recent_failures(days, limit), history.py:288-301
get_recent_failures(exists, lines, days, limit, now) ==
    LET loaded == HistoryStore_load(exists, lines, days, now)
        failures == SelectSeq(loaded.entries,
                        LAMBDA e : e.status \in {"FAILED", "UNAVAILABLE", "DEGRADED"})
    IN  [raised |-> loaded.raised,
         failures |-> IF loaded.raised THEN <<>>
                      ELSE Prefix(SortedDescending(failures), limit)]

ReadInit ==
    /\ qExists = FALSE
    /\ qRead = Absent

\* what the monitor appends at `now`: any payload, and a failure of the
\* status service
ReadEntries(now) ==
    HistEntries(now)
    \cup {[timestamp |-> PlusZ(isoformat(now)), model |-> m,
           scenario |-> "generation", status |-> "UNAVAILABLE", duration_ms |-> 3,
           error_category |-> Absent, details |-> Absent,
           host |-> Absent, user |-> Absent] : m \in Models}

\* store.append(entry): open(path, "a") creates the file
ReadAppend ==
    /\ Len(history_file) < MaxHist
    /\ \E entry \in ReadEntries(clock) :
          history_file' = append(history_file, entry)
    /\ qExists' = TRUE
    /\ qRead' = Absent
    /\ UNCHANGED <<clock, status_files, exceptRead>>

\* what a call finds; the calls modelled are the first since the last
\* append
Found ==
    [exists |-> qExists, lines |-> history_file, now |-> clock]

\* store.load(days)
ReadLoad ==
    /\ qRead = Absent
    /\ \E days \in 1..MaxDays :
          qRead' = Some([op |-> "load", days |-> days, limit |-> 0, found |-> Found,
                         returned |-> HistoryStore_load(qExists, history_file,
                                                        days, clock)])
    /\ UNCHANGED <<qExists, storeVars, exceptRead>>

\* store.prune(keep_days)
ReadPrune ==
    /\ qRead = Absent
    /\ \E keep_days \in 0..MaxDays :
          LET pruned == HistoryStore_prune(qExists, history_file, keep_days, clock)
          IN  /\ qRead' = Some([op |-> "prune", days |-> keep_days, limit |-> 0,
                                found |-> Found, returned |-> pruned])
              /\ qExists' = pruned.exists
              /\ history_file' = pruned.lines
    /\ UNCHANGED <<clock, status_files, exceptRead>>

\* store.get_daily_summary(days)
ReadSummary ==
    /\ qRead = Absent
    /\ \E days \in 1..MaxDays :
          qRead' = Some([op |-> "get_daily_summary", days |-> days, limit |-> 0,
                         found |-> Found,
                         returned |-> HistoryStore_get_daily_summary(
                                          qExists, history_file, days, clock)])
    /\ UNCHANGED <<qExists, storeVars, exceptRead>>

\* store.get_recent_failures(days, limit)
ReadFailures ==
    /\ qRead = Absent
    /\ \E days \in 1..MaxDays, limit \in 0..MaxHist :
          qRead' = Some([op |-> "get_recent_failures", days |-> days,
                         limit |-> limit, found |-> Found,
                         returned |-> get_recent_failures(qExists, history_file,
                                                          days, limit, clock)])
    /\ UNCHANGED <<qExists, storeVars, exceptRead>>

ReadNext ==
    \/ Tick
    \/ DayPasses
    \/ ReadAppend
    \/ ReadLoad
    \/ ReadPrune
    \/ ReadSummary
    \/ ReadFailures

(***************************************************************************)
(* git_sync.py: sync_notebooks_to_github.  Every git command is run by     *)
(* run_git_command, which returns whether it succeeded and never raises    *)
(* (a command that takes more than 60 seconds counts as failed).           *)
(***************************************************************************)
max_retries == 3
MaxSyncs == 2

\* not the test of line 214: one attempt more is taken for granted
retries_left_after_last(attempt) == attempt < max_retries

\* line 214: `attempt < max_retries - 1`, another attempt follows
retries_left(attempt) == attempt < max_retries - 1

\* what the call meets before the loop: the path up to the commit
\* (lines 130-190) ends the call, or the commit is made
SyncPaths ==
    {"no_directory", "no_repository", "tracked", "add_failed", "nothing_staged",
     "commit_failed", "committed"}

\* the git commands run on that path, and what the call returns where it
\* ends there
SyncCommands(path) ==
    CASE path \in {"no_directory", "no_repository", "tracked"} -> <<>>
      [] path = "add_failed" -> <<[cmd |-> "add", ok |-> FALSE]>>
      [] path = "nothing_staged" ->
            <<[cmd |-> "add", ok |-> TRUE], [cmd |-> "diff", ok |-> TRUE]>>
      [] path = "commit_failed" ->
            <<[cmd |-> "add", ok |-> TRUE], [cmd |-> "diff", ok |-> TRUE],
              [cmd |-> "commit", ok |-> FALSE]>>
      [] path = "committed" ->
            <<[cmd |-> "add", ok |-> TRUE], [cmd |-> "diff", ok |-> TRUE],
              [cmd |-> "commit", ok |-> TRUE]>>

SyncReturns(path) == path \in {"tracked", "nothing_staged"}

SyncInit ==
    /\ gPc = "idle"
    /\ gSyncs = 0
    /\ gModel = Absent
    /\ gAttempt = 0
    /\ gCommands = <<>>
    /\ gCommitted = FALSE
    /\ gReturn = Absent

\* sync_notebooks_to_github(model_name, notebooks_base) up to the loop
SyncStart ==
    /\ gPc \in {"idle", "done"}
    /\ gSyncs < MaxSyncs
    /\ gSyncs' = gSyncs + 1
    /\ \E model_name \in {mi.model_key : mi \in ModelInfos} :
          gModel' = Some(Replace(model_name, "/", <<"-", "-">>))
    /\ gAttempt' = 0
    /\ \E path \in SyncPaths :
          /\ gCommands' = SyncCommands(path)
          /\ gCommitted' = (path = "committed")
          /\ IF path = "committed"
             THEN gPc' = "pull" /\ gReturn' = Absent
             ELSE gPc' = "done" /\ gReturn' = Some(SyncReturns(path))
    /\ UNCHANGED exceptSync

\* git pull --rebase; whether it succeeded or not, the push follows
SyncPull ==
    /\ gPc = "pull"
    /\ \E ok \in BOOLEAN :
          gCommands' = Append(gCommands, [cmd |-> "pull --rebase", ok |-> ok])
    /\ gPc' = "push"
    /\ UNCHANGED <<gSyncs, gModel, gAttempt, gCommitted, gReturn, exceptSync>>

\* git push: success ends the loop and the call returns True; after a
\* failure the loop sleeps and goes on, or returns False; a loop that ran
\* out of attempts would go on to line 222 and return True
SyncPush ==
    /\ gPc = "push"
    /\ \E ok \in BOOLEAN :
          /\ gCommands' = Append(gCommands, [cmd |-> "push", ok |-> ok])
          /\ IF ok
             THEN /\ gPc' = "done" /\ gReturn' = Some(TRUE)
                  /\ UNCHANGED gAttempt
             ELSE IF ~retries_left(gAttempt)
             THEN /\ gPc' = "done" /\ gReturn' = Some(FALSE)
                  /\ UNCHANGED gAttempt
             ELSE IF gAttempt + 1 < max_retries
             THEN /\ gPc' = "pull" /\ gAttempt' = gAttempt + 1
                  /\ UNCHANGED gReturn
             ELSE /\ gPc' = "done" /\ gReturn' = Some(TRUE)
                  /\ UNCHANGED gAttempt
    /\ UNCHANGED <<gSyncs, gModel, gCommitted, exceptSync>>

SyncNext == SyncStart \/ SyncPull \/ SyncPush

(***************************************************************************)
(* models.py: the models of a full sweep.  A status is the list of its     *)
(* deployments in the order of the JSON object; the architecture of a      *)
(* deployment is what detect_architecture makes of its key and config.     *)
(***************************************************************************)
MaxCatalog == 3
MaxExtra == 2

\* BASELINE_MODELS, models.py:15-32
BASELINE_MODELS ==
    <<"openai-community/gpt2", "EleutherAI/gpt-j-6b", "meta-llama/Llama-2-7b-hf",
      "meta-llama/Llama-3.1-8B", "allenai/Olmo-3-1025-7B", "meta-llama/Llama-3.1-70B",
      "meta-llama/Llama-3.1-70B-Instruct", "meta-llama/Llama-3.3-70B-Instruct",
      "meta-llama/Llama-3.1-405B-Instruct">>

\* get_available_models(status, hot_only), models.py:128-164
get_available_models(status, hot_only) ==
    SelectSeq(status, LAMBDA m : ~hot_only \/ m.deployment_level = "HOT")

RECURSIVE Architectures(_)
\* the keys of get_models_by_architecture(models), in the order in which
\* the dict got them
Architectures(models) ==
    IF models = <<>> THEN <<>>
    ELSE LET rest == Architectures(SubSeq(models, 1, Len(models) - 1))
             a == models[Len(models)].architecture
         IN  IF \E i \in 1..Len(rest) : rest[i] = a THEN rest ELSE Append(rest, a)

\* m.n_params or float("inf"): no count sorts last; Infinity stands for
\* float("inf")
Infinity == 1000
SizeKey(m) ==
    IF m.n_params # Absent /\ Get(m.n_params) # 0 THEN Get(m.n_params) ELSE Infinity

RECURSIVE SortedBySize(_)
\* sorted(arch_models, key=..., reverse=False): models of equal key keep
\* their order
SortedBySize(models) ==
    IF models = <<>> THEN <<>>
    ELSE LET n == Len(models)
             m == models[n]
             rest == SortedBySize(SubSeq(models, 1, n - 1))
         IN  SelectSeq(rest, LAMBDA x : SizeKey(x) <= SizeKey(m))
             \o <<m>>
             \o SelectSeq(rest, LAMBDA x : SizeKey(x) > SizeKey(m))

RECURSIVE SelectedOf(_, _, _)
\* the loop of select_test_models over the architectures
SelectedOf(archs, models, max_per_architecture) ==
    IF archs = <<>> THEN <<>>
    ELSE Prefix(SortedBySize(SelectSeq(models,
                    LAMBDA m : m.architecture = Head(archs))),
                max_per_architecture)
         \o SelectedOf(Tail(archs), models, max_per_architecture)

\* not select_test_models: the first of each architecture as the catalog
\* lists them, whatever their parameter counts
select_test_models_unsorted(models, max_per_architecture) ==
    LET First(archs) ==
            [i \in 1..Len(archs) |->
                Prefix(SelectSeq(models, LAMBDA m : m.architecture = archs[i]),
                       max_per_architecture)]
        firsts == First(Architectures(models))
        Flat[i \in 0..Len(firsts)] ==
            IF i = 0 THEN <<>> ELSE Flat[i - 1] \o firsts[i]
    IN  Flat[Len(firsts)]

\* select_test_models(models, max_per_architecture, prefer_smaller=True),
\* models.py:179-206
select_test_models(models, max_per_architecture) ==
    SelectedOf(Architectures(models), models, max_per_architecture)

\* by_key = {m.model_key: m for m in all_models}: the last model of a key
ByKey(all_models, model_key) ==
    LET at == {i \in 1..Len(all_models) : all_models[i].model_key = model_key}
    IN  IF at = {} THEN Absent ELSE Some(all_models[Max(at)])

\* get_baseline_models(all_models), models.py:209-231
get_baseline_models(all_models) ==
    LET present == SelectSeq(BASELINE_MODELS,
                             LAMBDA k : ByKey(all_models, k) # Absent)
    IN  [i \in 1..Len(present) |-> Get(ByKey(all_models, present[i]))]

\* get_test_models(status, include_extra_hot=True,
\* max_extra_per_architecture), models.py:234-266
get_test_models(status, max_extra_per_architecture) ==
    LET all_models == get_available_models(status, FALSE)
        hot_models == get_available_models(status, TRUE)
        baseline == get_baseline_models(all_models)
        baseline_keys == {baseline[i].model_key : i \in 1..Len(baseline)}
        extra_hot == SelectSeq(hot_models, LAMBDA m : m.model_key \notin baseline_keys)
    IN  baseline \o select_test_models(extra_hot, max_extra_per_architecture)

\* the deployments a status may list: two models of the baseline and three
\* others, hot or cold, the others with a parameter count or none
Deployments ==
    {[model_key |-> k, deployment_level |-> l, n_params |-> Absent,
      architecture |-> IF k = "openai-community/gpt2" THEN "gpt2" ELSE "llama"]
        : k \in {"openai-community/gpt2", "meta-llama/Llama-3.1-8B"},
          l \in {"HOT", "COLD"}}
    \cup {[model_key |-> k, deployment_level |-> l, n_params |-> n,
           architecture |-> IF k = "y/c" THEN "gpt2" ELSE "llama"]
        : k \in {"x/a", "x/b", "y/c"}, l \in {"HOT", "COLD"},
          n \in {Absent, Some(1), Some(2)}}

\* the statuses: up to MaxCatalog deployments of different keys
Statuses ==
    {st \in UNION {[1..n -> Deployments] : n \in 0..MaxCatalog} :
        \A i, j \in 1..Len(st) : st[i].model_key = st[j].model_key => i = j}

SelectInit ==
    /\ tStatus = Absent
    /\ tMax = 0
    /\ tSelected = Absent

\* status = fetch_ndif_status(), once in an invocation
StatusFetched ==
    /\ tStatus = Absent
    /\ \E status \in Statuses : tStatus' = Some(status)
    /\ tMax' \in 0..MaxExtra
    /\ tSelected' = Absent
    /\ UNCHANGED exceptSelect

\* models = get_test_models(status, include_extra_hot=True,
\* max_extra_per_architecture=max_per_architecture)
SelectModels ==
    /\ tStatus # Absent
    /\ tSelected = Absent
    /\ tSelected' = Some(get_test_models(Get(tStatus), tMax))
    /\ UNCHANGED <<tStatus, tMax, exceptSelect>>

SelectNext == StatusFetched \/ SelectModels

SweepNext ==
    \/ Tick
    \/ SweepStart
    \/ SweepFetch
    \/ SweepModel
    \/ RunSkip
    \/ RunCold
    \/ RunNotFound
    \/ RunNotebookTest
    \/ RunUpdOpen
    \/ RunUpdWrite
    \/ RunUpdAppend
    \/ RunReturn
    \/ SweepExtend
    \/ SweepRaised
    \/ SweepReturn

SideInit ==
    AppenderInit /\ WriterInit /\ CycleInit /\ ExecInit /\ SummaryInit
    /\ NameInit /\ ExitInit /\ SweepInit /\ ReadInit /\ SyncInit
    /\ SelectInit

Init == FoldIdle /\ StoreInit /\ WorkerInit /\ RunInit /\ HistInit /\ SideInit

Next == Tick \/ ApiUpdate \/ ApiAppend

vars == <<foldVars, storeVars, workerVars, runVars, histVars, sideVars>>

Spec == Init /\ [][Next]_vars

FoldSpecInit == FoldInit /\ StoreInit /\ WorkerInit /\ RunInit /\ HistInit /\ SideInit

SpecFold == FoldSpecInit /\ [][FoldNext]_vars

RunSpecInit == FoldIdle /\ RunStoreInit /\ WorkerInit /\ RunInit /\ HistInit /\ SideInit

SpecRun == RunSpecInit /\ [][RunNext]_vars

HistSpecInit == FoldIdle /\ StoreInit /\ WorkerInit /\ RunInit /\ HistInit /\ SideInit

SpecAppend == HistSpecInit /\ [][AppendNext]_vars

SpecHist == HistSpecInit /\ [][HistNext]_vars

SpecConcurrent == HistSpecInit /\ [][ConcurrentNext]_vars

SpecWriters == Init /\ [][WritersNext]_vars

SpecCycle == Init /\ [][CycleNext]_vars

SpecState == Init /\ [][StateNext]_vars

SpecExec == Init /\ [][ExecNext]_vars

SpecSummary == HistSpecInit /\ [][SummaryNext]_vars

SpecName == Init /\ [][NameNext]_vars

SpecExit == Init /\ [][ExitNext]_vars

SpecSweep == RunSpecInit /\ [][SweepNext]_vars

SpecRead == HistSpecInit /\ [][ReadNext]_vars

SpecSelect == Init /\ [][SelectNext]_vars

SpecSync == Init /\ [][SyncNext]_vars

\* every git command ends (run_git_command gives it 60 seconds), so a call
\* inside the loop goes on
SpecSyncLive == SpecSync /\ WF_vars(SyncPull) /\ WF_vars(SyncPush)

(***************************************************************************)
(* Properties of the folds (SpecFold).                                     *)
(***************************************************************************)
\* the statuses occurring in a list
Occurring(statuses) == {statuses[i] : i \in 1..Len(statuses)}

\* C1: the folds are order-independent: for a list of statuses and every
\* permutation of it, worst_status and overall_status return the same
\* result as for the list as given.
C1_OrderIndependent ==
    fPc = "done" => fHist = fHistOrig /\ fLive = fLiveOrig

\* a reordered list with a COLD before an OK has been folded to OK
C1_Witness ==
    /\ fPc = "done" /\ fPerm # fIn
    /\ fPerm[1] = "COLD" /\ fHist = "OK" /\ fLive = "OK"

\* what the precedence of C2 requires of the result for the statuses S
Precedence(S, result) ==
    /\ "UNAVAILABLE" \in S => result = "UNAVAILABLE"
    /\ "UNAVAILABLE" \notin S /\ "FAILED" \in S => result = "FAILED"
    /\ S \cap {"UNAVAILABLE", "FAILED"} = {} /\ "DEGRADED" \in S
          => result = "DEGRADED"
    /\ S \cap {"UNAVAILABLE", "FAILED", "DEGRADED"} = {} /\ "SLOW" \in S
          => result = "SLOW"
    /\ S = {"COLD"} => result = "COLD"
    /\ S \in {{"OK"}, {"OK", "COLD"}} => result = "OK"
    /\ S = {} => result = None

\* C2: worst_status returns UNAVAILABLE if any input is UNAVAILABLE, else
\* FAILED if any is FAILED, else DEGRADED, else SLOW, else COLD if the
\* input is non-empty and all COLD, else OK if non-empty, and None for the
\* empty input; with the five cases the claim lists.
C2_Precedence ==
    /\ fPc # "start" =>
          /\ Precedence(Occurring(fIn), fHistOrig)
          /\ fIn = <<"OK", "SLOW", "FAILED">> => fHistOrig = "FAILED"
          /\ fIn = <<"OK", "SLOW">> => fHistOrig = "SLOW"
          /\ fIn = <<"COLD", "COLD">> => fHistOrig = "COLD"
          /\ fIn = <<"COLD", "OK">> => fHistOrig = "OK"
          /\ fIn = <<>> => fHistOrig = None
    /\ fPc = "done" => Precedence(Occurring(fPerm), fHist)

\* {OK, SLOW, FAILED} has been folded
C2_Witness ==
    fPc = "orig" /\ fIn = <<"OK", "SLOW", "FAILED">> /\ fHistOrig = "FAILED"

\* C3: for a non-empty list of statuses overall_status equals worst_status;
\* for the empty list overall_status is UNAVAILABLE and worst_status None.
C3_CallSitesAgree ==
    /\ fPc # "start" =>
          /\ fIn # <<>> => fLiveOrig = fHistOrig
          /\ fIn = <<>> => fLiveOrig = "UNAVAILABLE" /\ fHistOrig = None
    /\ fPc = "done" /\ fPerm # <<>> => fLive = fHist

\* both call sites have folded {COLD, OK} to OK
C3_Witness ==
    fPc = "orig" /\ fIn = <<"COLD", "OK">> /\ fLiveOrig = "OK" /\ fHistOrig = "OK"

(***************************************************************************)
(* Properties of update_model_status by a single worker (Spec).            *)
(***************************************************************************)
\* the ModelStatus that ModelStatus.load reads for model m; Absent if
\* there is no file or no record can be read from it
Persisted(files, m) ==
    IF LoadRaises(files[model_to_filename(m)]) THEN Absent
    ELSE ModelStatus_load(files[model_to_filename(m)])

\* its ScenarioResult for scenario sc, or Absent
PersistedResult(files, m, sc) ==
    IF Persisted(files, m) = Absent THEN Absent
    ELSE DictGet(Get(Persisted(files, m)).scenarios, sc)

\* the stored last_success of the pair, Absent if null or not stored
LastSuccess(files, m, sc) ==
    IF PersistedResult(files, m, sc) = Absent THEN Absent
    ELSE Get(PersistedResult(files, m, sc)).last_success

\* the last_success of scenario sc in the record that update c loaded,
\* Absent if null, no such scenario or no record
LoadedLastSuccess(c, sc) ==
    IF c.loaded = Absent THEN Absent
    ELSE IF DictGet(Get(c.loaded).scenarios, sc) = Absent THEN Absent
    ELSE Get(DictGet(Get(c.loaded).scenarios, sc)).last_success

\* over the save of update c the last_success of no scenario of its model
\* has decreased or returned to null
WatermarkAdvanced(c) ==
    \A sc \in ScenarioNames :
        LoadedLastSuccess(c, sc) # Absent =>
            /\ LastSuccess(status_files, c.model, sc) # Absent
            /\ Get(LastSuccess(status_files, c.model, sc))
                  >= Get(LoadedLastSuccess(c, sc))

\* C4 as stated: an update carries last_success forward unchanged when the
\* result is not OK or SLOW and sets it to the new outcome's timestamp
\* (result.timestamp) when it is; it never decreases nor returns to null.
C4_SetToResultTimestamp ==
    call # Absent =>
        LET c == Get(call) IN
        /\ c.result.status \notin {"OK", "SLOW"} =>
              LastSuccess(status_files, c.model, c.scenario)
                 = LoadedLastSuccess(c, c.scenario)
        /\ c.result.status \in {"OK", "SLOW"} =>
              LastSuccess(status_files, c.model, c.scenario)
                 = Some(c.result.timestamp)
        /\ WatermarkAdvanced(c)

\* C4 amended: an update carries last_success forward unchanged when the
\* result is not OK or SLOW and sets it to the time now that the update
\* itself reads (its last_checked, at or after result.timestamp) when it
\* is; with a non-decreasing clock it never decreases nor returns to null.
C4_SetToUpdateTime ==
    call # Absent =>
        LET c == Get(call) IN
        /\ c.result.status \notin {"OK", "SLOW"} =>
              LastSuccess(status_files, c.model, c.scenario)
                 = LoadedLastSuccess(c, c.scenario)
        /\ c.result.status \in {"OK", "SLOW"} =>
              /\ LastSuccess(status_files, c.model, c.scenario) = Some(c.now)
              /\ Get(PersistedResult(status_files, c.model, c.scenario)).last_checked
                    = c.now
              /\ c.result.timestamp <= c.now
        /\ WatermarkAdvanced(c)

\* a SLOW result built before the update has set last_success to the later
\* time of the update, over an earlier watermark
C4_Witness ==
    /\ call # Absent
    /\ Get(call).result.status = "SLOW"
    /\ Get(call).result.timestamp < Get(call).now
    /\ LastSuccess(status_files, Get(call).model, Get(call).scenario)
          = Some(Get(call).now)
    /\ Len(history_file) > 0

\* C5: every ScenarioResult of every persisted ModelStatus has last_success
\* null or last_success <= last_checked.
C5_SuccessNotAfterChecked ==
    \A m \in Models, sc \in ScenarioNames :
        PersistedResult(status_files, m, sc) # Absent =>
            LET r == Get(PersistedResult(status_files, m, sc)) IN
            r.last_success = Absent \/ Get(r.last_success) <= r.last_checked

\* a stored result that failed after an earlier success
C5_Witness ==
    \E m \in Models, sc \in ScenarioNames :
        /\ PersistedResult(status_files, m, sc) # Absent
        /\ Get(PersistedResult(status_files, m, sc)).status = "FAILED"
        /\ Get(PersistedResult(status_files, m, sc)).last_success # Absent
        /\ Get(Get(PersistedResult(status_files, m, sc)).last_success)
              < Get(PersistedResult(status_files, m, sc)).last_checked

\* last_all_ok of the persisted record of m, Absent if null or no record
LastAllOk(files, m) ==
    IF Persisted(files, m) = Absent THEN Absent
    ELSE last_all_ok(Get(Persisted(files, m)).scenarios)

\* the last_success values of a scenarios dict
LastSuccesses(scenarios) ==
    {scenarios[i].res.last_success : i \in 1..Len(scenarios)}

\* last_all_ok is None with no scenarios or a null last_success, else the
\* minimum of the last_success values; the record stores it so
LastAllOkIsMin(m) ==
    Persisted(status_files, m) # Absent =>
        LET scenarios == Get(Persisted(status_files, m)).scenarios
            lao == last_all_ok(scenarios)
            stored == Get(status_files[model_to_filename(m)]).last_all_ok
        IN  /\ (scenarios = <<>> \/ Absent \in LastSuccesses(scenarios))
                  => lao = Absent
            /\ (scenarios # <<>> /\ Absent \notin LastSuccesses(scenarios)) =>
                  /\ lao \in LastSuccesses(scenarios)
                  /\ \A ls \in LastSuccesses(scenarios) : Get(lao) <= Get(ls)
            /\ stored = IF lao = Absent THEN Absent
                        ELSE Some(PlusZ(isoformat(Get(lao))))

\* C6: last_all_ok is None when the model has no scenarios or a scenario
\* has a null last_success, otherwise the minimum of the last_success
\* values; and over updates in which no last_success decreases it does not
\* decrease.
C6_LastAllOk ==
    /\ last_all_ok(<<>>) = Absent
    /\ \A m \in Models : LastAllOkIsMin(m)
    /\ (call # Absent /\ WatermarkAdvanced(Get(call))) =>
          LET c == Get(call)
              before == IF c.loaded = Absent THEN Absent
                        ELSE last_all_ok(Get(c.loaded).scenarios)
              after == LastAllOk(status_files, c.model)
          IN  (before # Absent /\ after # Absent) => Get(after) >= Get(before)

\* two scenarios have succeeded at different times and last_all_ok is the
\* earlier one
C6_Witness ==
    \E m \in Models :
        /\ Persisted(status_files, m) # Absent
        /\ Len(Get(Persisted(status_files, m)).scenarios) = 2
        /\ LastAllOk(status_files, m) # Absent
        /\ \E ls \in LastSuccesses(Get(Persisted(status_files, m)).scenarios) :
              Get(ls) > Get(LastAllOk(status_files, m))

\* the history entries of the pair written at or before time t
OutcomesUpTo(m, sc, t) ==
    {i \in 1..Len(history_file) :
        LET e == from_json_line(history_file[i]) IN
        /\ e.model = m /\ e.scenario = sc
        /\ fromisoformat_rstripZ(e.timestamp) <= t}

\* the latest of them (any of those with the latest timestamp)
MostRecentUpTo(m, sc, t) ==
    {i \in OutcomesUpTo(m, sc, t) :
        \A j \in OutcomesUpTo(m, sc, t) :
            fromisoformat_rstripZ(from_json_line(history_file[j]).timestamp)
               <= fromisoformat_rstripZ(from_json_line(history_file[i]).timestamp)}

\* C7: whenever last_all_ok is non-null it is a time at which the model was
\* fully healthy: at that instant the most recent outcome of every scenario
\* of the model was OK or SLOW.
C7_FullyHealthyAtLastAllOk ==
    call = Absent =>
        \A m \in Models :
            LastAllOk(status_files, m) # Absent =>
                \A i \in 1..Len(Get(Persisted(status_files, m)).scenarios) :
                    LET sc == Get(Persisted(status_files, m)).scenarios[i].name
                        latest == MostRecentUpTo(m, sc, Get(LastAllOk(status_files, m)))
                    IN  latest # {} =>
                            \E j \in latest :
                                from_json_line(history_file[j]).status \in {"OK", "SLOW"}

(***************************************************************************)
(* Properties of run_single_model with a process that may stop (SpecRun).  *)
(***************************************************************************)
\* positions in outcomes of the results whose update has not returned
InFlight == {k \in 1..Len(outcomes) : ~outcomes[k].returned}

SamePair(j, k) ==
    /\ outcomes[j].result.model = outcomes[k].result.model
    /\ outcomes[j].result.scenario = outcomes[k].result.scenario

\* the history entry at position k records outcome k
RecordedAt(k) ==
    LET e == from_json_line(history_file[k])
        r == outcomes[k].result
    IN  /\ e.model = r.model /\ e.scenario = r.scenario
        /\ e.status = r.status /\ e.duration_ms = r.duration_ms
        /\ fromisoformat_rstripZ(e.timestamp) >= r.timestamp

\* the current-state record of outcome k's pair holds the latest outcome of
\* the pair whose update has returned, or else the one in flight
ReflectedInStatus(k) ==
    LET r == outcomes[k].result
        pr == PersistedResult(status_files, r.model, r.scenario)
        lastRet == Max({j \in 1..Len(outcomes) :
                           outcomes[j].returned /\ SamePair(j, k)})
    IN  /\ pr # Absent
        /\ \/ /\ Get(pr).status = outcomes[lastRet].result.status
              /\ Get(pr).duration_ms = outcomes[lastRet].result.duration_ms
              /\ Get(pr).last_checked
                    = fromisoformat_rstripZ(from_json_line(history_file[lastRet]).timestamp)
           \/ \E j \in InFlight :
                 /\ SamePair(j, k)
                 /\ Get(pr).status = outcomes[j].result.status
                 /\ Get(pr).last_checked >= outcomes[j].result.timestamp

\* C8: each result is made durable before the next scenario starts: its
\* update saves the ModelStatus record and appends exactly one history
\* entry, so wherever the process stops the persisted current state and the
\* history hold every result completed before, and only the result in
\* flight (the last one) can be missing.
C8_DurablePerResult ==
    /\ InFlight \subseteq {Len(outcomes)}
    /\ rPc \in {"loop", "returned", "raised"} => InFlight = {}
    /\ Len(history_file) = Len(outcomes) - Cardinality(InFlight)
    /\ \A k \in 1..Len(outcomes) :
          outcomes[k].returned => RecordedAt(k) /\ ReflectedInStatus(k)

\* the process stopped inside ModelStatus.save of its second result, after
\* open(path, "w") and before the write: the first result, whose update had
\* returned, is in the history and in no readable current-state record
C8_Witness ==
    /\ rPc = "crashed"
    /\ Len(outcomes) = 2 /\ InFlight = {2} /\ Len(history_file) = 1
    /\ RecordedAt(1)
    /\ LoadRaises(status_files[model_to_filename(outcomes[1].result.model)])

(***************************************************************************)
(* Properties of the HistoryStore (SpecAppend, SpecHist).                  *)
(***************************************************************************)
\* how often x occurs in a list
Count(list, x) == Cardinality({i \in 1..Len(list) : list[i] = x})

\* two lists hold the same elements the same number of times
SameMultiset(a, b) ==
    /\ Len(a) = Len(b)
    /\ \A i \in 1..Len(a) : Count(a, a[i]) = Count(b, a[i])

\* the instant an entry's timestamp names
TimeOf(entry) == fromisoformat_rstripZ(entry.timestamp)

\* the instant `days` days before a call's now
CutoffOf(c, days) == c.now - days * DayTicks

\* a load without model and scenario filter
Unfiltered(l) == l.model = Absent /\ l.scenario = Absent /\ ~l.raised

\* the last load read a file that holds the appended entries and nothing
\* else (it was empty before them and no prune has removed any), and its
\* `days` reach back to the oldest of them
LoadedAllAppended ==
    /\ hLoaded # Absent
    /\ Unfiltered(Get(hLoaded))
    /\ Len(history_file) = Len(hAppended)
    /\ \A i \in 1..Len(hAppended) :
          TimeOf(hAppended[i]) >= CutoffOf(Get(hLoaded), Get(hLoaded).days)

\* an Optional[str] as it comes back from the file: "" comes back as None
StoredText(o) == IF o = Some("") THEN Absent ELSE o

\* the details as they come back: "" as None, more than 2048 characters as
\* the first 2048
StoredDetails(o) ==
    IF o = Absent \/ o = Some(Str(0)) THEN Absent
    ELSE IF Get(o).n > HistDetailsMax THEN Some(Str(HistDetailsMax))
    ELSE o

Stored(entry) ==
    [entry EXCEPT !.error_category = StoredText(@),
                  !.details = StoredDetails(@),
                  !.host = StoredText(@),
                  !.user = StoredText(@)]

\* C9 as stated: appending N entries to an empty history with append or
\* append_many and loading with days that cover them all returns exactly
\* those N entries as a multiset, every field (the null ones too) equal to
\* what was appended.
C9_LoadReturnsAppended ==
    LoadedAllAppended => SameMultiset(Get(hLoaded).entries, hAppended)

\* C9: appending N entries to an empty history with append or append_many
\* and loading with days that cover them all returns N entries, as a
\* multiset those appended with timestamp, model, scenario, status and
\* duration unchanged, details longer than 2048 characters cut to their
\* first 2048, and an empty error category, details, host or user null.
C9_LoadReturnsStored ==
    LoadedAllAppended =>
        SameMultiset(Get(hLoaded).entries,
                     [i \in 1..Len(hAppended) |-> Stored(hAppended[i])])

\* two entries were appended to the empty history, one with details of 2049
\* characters and one with empty texts, a day passed, and load(days=2)
\* returned two entries, the first with details of 2048 characters
C9_Witness ==
    /\ LoadedAllAppended
    /\ Len(hAppended) = 2
    /\ hAppended[1].details = Some(Str(HistDetailsMax + 1))
    /\ hAppended[2].host = Some("")
    /\ Get(hLoaded).now >= DayTicks
    /\ Len(Get(hLoaded).entries) = 2
    /\ Get(hLoaded).entries[1].details = Some(Str(HistDetailsMax))
    /\ Get(hLoaded).entries[2].host = Absent

\* the entries of the well-formed lines of a file
EntriesOf(lines) ==
    LET good == SelectSeq(lines, Parses)
    IN  [i \in 1..Len(good) |-> from_json_line(good[i])]

\* C10: after prune(keep_days=K) and with no append since, load(days=K)
\* returns no entry older than the cutoff now - K days, and every entry that
\* was in the store with a timestamp at or after the cutoff is returned.
C10_PruneThenLoad ==
    (hPruned # Absent /\ hLoaded # Absent /\ Unfiltered(Get(hLoaded))
        /\ ~Get(hPruned).raised
        /\ Get(hLoaded).days = Get(hPruned).keep_days) =>
    LET cutoff == CutoffOf(Get(hLoaded), Get(hLoaded).days)
        loaded == Get(hLoaded).entries
        before == EntriesOf(Get(hPruned).before)
    IN  /\ \A i \in 1..Len(loaded) : TimeOf(loaded[i]) >= cutoff
        /\ \A i \in 1..Len(before) :
              TimeOf(before[i]) >= cutoff
                  => Count(loaded, before[i]) >= Count(before, before[i])

\* a line that is a well-formed history record: an object with the five
\* required keys and a text timestamp
WellFormed(line) == Parses(line) /\ IsText(line.data.ts)

\* the entry of a line passes the filters of load l (a filter that is not
\* given does not restrict)
MatchesFilters(l, entry) ==
    /\ l.model # Absent => entry.model = Get(l.model)
    /\ l.scenario # Absent => entry.scenario = Get(l.scenario)

\* C11: load degrades gracefully on a damaged log: whatever the file holds,
\* load does not raise, it skips every line that is not a well-formed
\* record, and it returns every well-formed line within the time window.
C11_LoadSkipsDamaged ==
    hLoaded # Absent =>
        LET l == Get(hLoaded) IN
        /\ ~l.raised
        /\ \A i \in 1..Len(l.entries) :
              \E k \in 1..Len(history_file) :
                 /\ WellFormed(history_file[k])
                 /\ l.entries[i] = from_json_line(history_file[k])
        /\ \A k \in 1..Len(history_file) :
              (/\ WellFormed(history_file[k])
               /\ TimeOf(from_json_line(history_file[k])) >= CutoffOf(l, l.days)
               /\ MatchesFilters(l, from_json_line(history_file[k])))
              => \E i \in 1..Len(l.entries) :
                    l.entries[i] = from_json_line(history_file[k])

\* a load of a file that holds a well-formed record and, after it, a line
\* that is JSON but no object: the load has raised
C11_Witness ==
    /\ hLoaded # Absent
    /\ Len(history_file) = 2
    /\ WellFormed(history_file[1])
    /\ history_file[2].kind = "nonobject"
    /\ Get(hLoaded).raised

\* C12: load(days, model, scenario) returns, in storage order, all and
\* only the stored well-formed entries whose timestamp is at or after now
\* minus days and whose model and scenario equal the filters given.
C12_LoadReturnsWindow ==
    (hLoaded # Absent /\ ~Get(hLoaded).raised) =>
        LET l == Get(hLoaded)
            Wanted(line) ==
                /\ WellFormed(line)
                /\ TimeOf(from_json_line(line)) >= CutoffOf(l, l.days)
                /\ MatchesFilters(l, from_json_line(line))
            wanted == SelectSeq(history_file, Wanted)
        IN  l.entries = [i \in 1..Len(wanted) |-> from_json_line(wanted[i])]

\* load(days=1) a day and half a second after an entry was stamped on a
\* whole second: the entry, older than the cutoff, has been returned
C12_Witness ==
    /\ hLoaded # Absent /\ ~Get(hLoaded).raised
    /\ Get(hLoaded).scenario = Absent /\ Get(hLoaded).model = Absent
    /\ Len(Get(hLoaded).entries) = 1
    /\ TimeOf(Get(hLoaded).entries[1]) < CutoffOf(Get(hLoaded), Get(hLoaded).days)

(***************************************************************************)
(* Concurrent appends                                                      *)
(***************************************************************************)
\* no invocation is inside append or append_many
AllClosed == \A p \in Appenders : aPc[p] = "idle"

\* the lines append writes for a list of entries
LinesOf(entries) == [i \in 1..Len(entries) |-> to_json_line(entries[i])]

SharedFile == status_files[model_to_filename(SharedModel)]

PersistedBefore(sel) == CycleState_load(sel.before)

Unrestricted(model) ==
    SelectSeq(RunScenarios, LAMBDA scenario : ~Restricted(scenario, model))

\* C16: for a model that is not available run_single_model never calls
\* run_notebook_test; every result it builds is COLD with duration 0; when
\* it returns there is one result for every scenario the architecture
\* restriction does not exclude, in order, and for each of them the
\* persisted current-state record holds COLD with duration 0 and the
\* history holds one entry, one history line per result.
C16_ColdModel ==
    (rModel # Absent /\ ~Get(rModel).is_available) =>
        LET model == Get(rModel)
            todo == Unrestricted(model)
            base == Len(outcomes) - Len(rResults)
        IN  /\ rPc # "raised"
            /\ \A i \in 1..Len(rResults) :
                  /\ rResults[i].status = "COLD"
                  /\ rResults[i].duration_ms = 0
                  /\ rResults[i].model = model.model_key
                  /\ rResults[i].scenario = todo[i].name
            /\ rPc = "returned" =>
                  /\ Len(rResults) = Len(todo)
                  /\ Len(history_file) = Len(outcomes)
                  /\ \A i \in 1..Len(rResults) :
                        LET pr == PersistedResult(status_files, model.model_key,
                                                  rResults[i].scenario)
                        IN  /\ RecordedAt(base + i)
                            /\ outcomes[base + i].result = rResults[i]
                            /\ pr # Absent
                            /\ Get(pr).status = "COLD"
                            /\ Get(pr).duration_ms = 0

\* run_single_model has returned for the gpt2 model, which is not
\* available: one COLD result, for basic_trace, and none for the scenario
\* restricted to llama
C16_Witness ==
    /\ rPc = "returned"
    /\ rModel # Absent
    /\ ~Get(rModel).is_available
    /\ Get(rModel).architecture = "gpt2"
    /\ Len(rResults) = 1
    /\ rResults[1].status = "COLD"
    /\ Len(history_file) >= 1

(***************************************************************************)
(* The status of an executed test                                          *)
(***************************************************************************)
\* the raw outcome is a failure whose error text is classified as
\* MODEL_NOT_LOADED
NotLoadedFailure(raw) ==
    /\ ~success_of(raw)
    /\ TruthyText(error_text_of(raw))
    /\ classify_error(Get(error_text_of(raw))) = "MODEL_NOT_LOADED"

\* C17: the raw executor outcome is mapped to a status: run_notebook_test
\* returns a TestResult whose status is UNAVAILABLE for a failure whose
\* error text is classified as MODEL_NOT_LOADED, FAILED for any other
\* failure (one without error text too), and OK for a success whatever its
\* duration; never SLOW, DEGRADED or COLD.
C17_OutcomeMapping ==
    eResult # Absent =>
        LET raw == Get(eRaw)
            test == Get(eResult)
        IN  /\ ~test.raised
            /\ test.result.status =
                  IF NotLoadedFailure(raw) THEN "UNAVAILABLE"
                  ELSE IF ~success_of(raw) THEN "FAILED"
                  ELSE "OK"

\* the notebook failed with an error text in which the model-not-loaded
\* pattern is the first found, took longer than the threshold, and
\* run_notebook_test raised
C17_Witness ==
    /\ eRaw # Absent
    /\ eResult # Absent
    /\ NotLoadedFailure(Get(eRaw))
    /\ Get(eRaw).duration_ms > ThresholdMs
    /\ Get(eResult).raised

(***************************************************************************)
(* Failures of the Test Executor                                           *)
(***************************************************************************)
\* outcome k is an outcome of the model under test that records a failure
RecordsFailure(k) ==
    /\ outcomes[k].result.model = Get(rModel).model_key
    /\ outcomes[k].result.status \in {"FAILED", "UNAVAILABLE"}

\* C18: a failure, timeout or crash of the Test Executor for one (model,
\* scenario) pair is not fatal to the run: run_single_model does not raise,
\* the pair gets a FAILED or UNAVAILABLE outcome, and the loop goes on to
\* the remaining scenarios.
C18_FailureNotFatal ==
    (eRaw # Absent /\ ~success_of(Get(eRaw))) =>
        /\ rPc # "raised"
        /\ outcomes # <<>>
        /\ RecordsFailure(Len(outcomes))
        /\ rPc = "returned" => Len(rResults) = Len(Unrestricted(Get(rModel)))

\* the notebook of the first scenario of an available llama model timed
\* out, run_single_model raised, and the second scenario was not run
C18_Witness ==
    /\ rPc = "raised"
    /\ eRaw # Absent
    /\ Get(eRaw).error = Some(ErrorText({3}))
    /\ Get(rModel).architecture = "llama"
    /\ rIdx = 1
    /\ outcomes = <<>>

(***************************************************************************)
(* The daily summary                                                       *)
(***************************************************************************)
\* the instant of an entry on the clock of America/New_York, in ticks since
\* its 00:00 of day 0
LocalTicks(entry) ==
    TimeOf(entry) + (EpochHour - EasternOffsetHours) * HourTicks

\* the local date of an entry and its local hour of the day
LocalDate(entry) == LocalTicks(entry) \div DayTicks
LocalHour(entry) == (LocalTicks(entry) % DayTicks) \div HourTicks

\* the positions, in the list a summary loaded, of the entries of a local
\* date and model
OnDate(s, k) ==
    {i \in 1..Len(s.entries) :
        <<LocalDate(s.entries[i]), s.entries[i].model>> = k}

\* C19: in the summary get_daily_summary returns, the status of every
\* (local date, model) is the worst-status fold over the values of the
\* "scenarios" mapping reported for that date and model; the mapping holds
\* the scenarios the model has entries for on that date, each with the
\* status of the last of them loaded.
C19_OverallIsFold ==
    sSummary # Absent =>
        LET s == Get(sSummary)
        IN  /\ DOMAIN s.summary
                  = {<<LocalDate(s.entries[i]), s.entries[i].model>>
                        : i \in 1..Len(s.entries)}
            /\ \A k \in DOMAIN s.summary :
                  LET day == s.summary[k]
                  IN  /\ day.status = worst_status(DictValues(day.scenarios))
                      /\ {day.scenarios[j].name : j \in 1..Len(day.scenarios)}
                            = {s.entries[i].scenario : i \in OnDate(s, k)}
                      /\ \A j \in 1..Len(day.scenarios) :
                            LET last == Max({i \in OnDate(s, k) :
                                               s.entries[i].scenario
                                                  = day.scenarios[j].name})
                            IN  day.scenarios[j].res = s.entries[last].status

\* a summary of two entries of one model, scenario and local date, SLOW and
\* then OK: the mapping holds OK for the scenario and the status is OK
C19_Witness ==
    /\ sSummary # Absent
    /\ Len(Get(sSummary).entries) = 2
    /\ Get(sSummary).entries[1].status = "SLOW"
    /\ Get(sSummary).entries[2].status = "OK"
    /\ DOMAIN Get(sSummary).summary = {<<0, <<"a", "/", "b">>>>}
    /\ Get(sSummary).summary[<<0, <<"a", "/", "b">>>>].status = "OK"

\* the positions of the loaded entries of a local date, model and local hour
InHour(s, k, hour) == {i \in OnDate(s, k) : LocalHour(s.entries[i]) = hour}

\* the statuses of the entries at these positions, in the order loaded
StatusesAt(s, positions) ==
    LET chosen == SelectSeq([i \in 1..Len(s.entries) |-> i],
                            LAMBDA i : i \in positions)
    IN  [j \in 1..Len(chosen) |-> s.entries[chosen[j]].status]

\* C20: get_daily_summary places every loaded entry in exactly one hour
\* bucket, the one of its local hour of the day (0 to 23) under its local
\* date and model, and the value of every hour bucket is the worst-status
\* fold of all the entries of that model in that local hour of that date,
\* not only of the latest per scenario.
C20_HourBuckets ==
    sSummary # Absent =>
        LET s == Get(sSummary)
            Buckets(i) ==
                {<<k, j>> \in {<<k, j>> : k \in DOMAIN s.daily, j \in 0..23} :
                    /\ k = <<LocalDate(s.entries[i]), s.entries[i].model>>
                    /\ DictGet(s.daily[k].hours, j) # Absent
                    /\ j = LocalHour(s.entries[i])}
        IN  /\ \A i \in 1..Len(s.entries) : Cardinality(Buckets(i)) = 1
            /\ DOMAIN s.summary = DOMAIN s.daily
            /\ \A k \in DOMAIN s.daily :
                  /\ Len(s.summary[k].hours) = Len(s.daily[k].hours)
                  /\ \A j \in 1..Len(s.daily[k].hours) :
                        LET bucket == s.daily[k].hours[j]
                            all == StatusesAt(s, InHour(s, k, bucket.name))
                        IN  /\ bucket.name \in 0..23
                            /\ bucket.res = all
                            /\ all # <<>>
                            /\ s.summary[k].hours[j].name = bucket.name
                            /\ s.summary[k].hours[j].res = worst_status(all)

\* two entries of one model and scenario written at 03:00 UTC, SLOW and then
\* OK, are summarised: both are in the bucket of hour 22 of the day before,
\* whose value is SLOW
C20_Witness ==
    /\ sSummary # Absent
    /\ Len(Get(sSummary).entries) = 2
    /\ Get(sSummary).entries[1].status = "SLOW"
    /\ Get(sSummary).entries[2].status = "OK"
    /\ DOMAIN Get(sSummary).summary = {<<-1, <<"a", "/", "b">>>>}
    /\ Get(sSummary).summary[<<-1, <<"a", "/", "b">>>>].hours
          = <<[name |-> 22, res |-> "SLOW"]>>

(***************************************************************************)
(* The date of a summary's day                                             *)
(***************************************************************************)
\* the UTC calendar date of an entry's timestamp
UtcDate(entry) == (TimeOf(entry) + EpochHour * HourTicks) \div DayTicks

\* the scenario names of a summary's (date, model)
ScenarioNamesOf(day) == {day.scenarios[j].name : j \in 1..Len(day.scenarios)}

\* C21: get_daily_summary groups by the Eastern calendar date of the stored
\* UTC instant: two loaded entries of a model whose timestamps fall on the
\* same Eastern date are under one and the same date key, also when they
\* fall on different UTC dates, and a model has as many date keys as its
\* entries have Eastern dates.
C21_EasternDateKey ==
    sSummary # Absent =>
        LET s == Get(sSummary)
            e == s.entries
        IN  /\ \A i, j \in 1..Len(e) :
                  (e[i].model = e[j].model /\ LocalDate(e[i]) = LocalDate(e[j])) =>
                      LET k == <<LocalDate(e[i]), e[i].model>>
                      IN  /\ k \in DOMAIN s.summary
                          /\ {e[i].scenario, e[j].scenario}
                                \subseteq ScenarioNamesOf(s.summary[k])
            /\ \A i \in 1..Len(e) :
                  Cardinality({k \in DOMAIN s.summary : k[2] = e[i].model})
                     = Cardinality({LocalDate(e[j]) :
                                       j \in {n \in 1..Len(e) :
                                                 e[n].model = e[i].model}})

\* two entries of one model, written on different UTC dates and on the same
\* Eastern date, with different scenarios: the summary has one date key,
\* which holds both scenarios
C21_Witness ==
    /\ sSummary # Absent
    /\ Len(Get(sSummary).entries) = 2
    /\ UtcDate(Get(sSummary).entries[1]) # UtcDate(Get(sSummary).entries[2])
    /\ LocalDate(Get(sSummary).entries[1]) = LocalDate(Get(sSummary).entries[2])
    /\ Cardinality(DOMAIN Get(sSummary).summary) = 1
    /\ \E k \in DOMAIN Get(sSummary).summary :
          ScenarioNamesOf(Get(sSummary).summary[k]) = {"basic_trace", "generation"}

(***************************************************************************)
(* The round trip of the current-state record                              *)
(***************************************************************************)
\* the ModelStatus that update_model_status built and saved last
SavedStatus == Get(call).status

\* what ModelStatus.load reads back from the file that status was saved to
LoadedBack == ModelStatus_load(status_files[model_to_filename(SavedStatus.model)])

\* the details of a ScenarioResult as they come back: more than 500
\* characters as the first 500 followed by "... [truncated]"
RestoredDetails(o) ==
    IF TruthyText(o)
       /\ Get(o).n + (IF Get(o).cut THEN 15 ELSE 0) > StatusDetailsMax
    THEN Some([n |-> StatusDetailsMax, cut |-> TRUE])
    ELSE o

Restored(ms) ==
    [ms EXCEPT !.scenarios =
        [i \in 1..Len(ms.scenarios) |->
            [ms.scenarios[i] EXCEPT !.res.details = RestoredDetails(@)]]]

\* C22 as stated: ModelStatus.from_dict(ms.to_dict()) equals ms in every
\* field for every ModelStatus, whatever its details texts, and save
\* followed by load yields an identical value.
C22_RoundTripExact ==
    call # Absent =>
        /\ ModelStatus_from_dict(ModelStatus_to_dict(SavedStatus)) = SavedStatus
        /\ LoadedBack = Some(SavedStatus)

\* C22: ModelStatus.from_dict(ms.to_dict()), and save followed by load,
\* yield ms with model, last_updated, nnsight_version, the scenario set and
\* every scenario's status, duration, last_checked, last_success and
\* error_category unchanged, and the details unchanged up to 500
\* characters, longer details cut to their first 500 characters followed
\* by "... [truncated]".
C22_RoundTripCutsDetails ==
    call # Absent =>
        /\ ModelStatus_from_dict(ModelStatus_to_dict(SavedStatus))
              = Restored(SavedStatus)
        /\ LoadedBack = Some(Restored(SavedStatus))

\* a status of two scenarios was saved, one passed (last_success set, no
\* error category, no details) and one failed with details of 501
\* characters (no last_success, an error category): the details read back
\* are the first 500 characters and the marker
C22_Witness ==
    /\ call # Absent
    /\ Len(SavedStatus.scenarios) = 2
    /\ \E i, j \in 1..2 :
          /\ SavedStatus.scenarios[i].res.details = Some(Str(StatusDetailsMax + 1))
          /\ SavedStatus.scenarios[i].res.last_success = Absent
          /\ SavedStatus.scenarios[i].res.error_category # Absent
          /\ Get(LoadedBack).scenarios[i].res.details
                = Some([n |-> StatusDetailsMax, cut |-> TRUE])
          /\ SavedStatus.scenarios[j].res.last_success # Absent
          /\ SavedStatus.scenarios[j].res.details = Absent

(***************************************************************************)
(* The file name of a model and back                                       *)
(***************************************************************************)
\* C23: filename_to_model(model_to_filename(m)) equals m for every model
\* identifier m, and two distinct model identifiers never map to the same
\* current-state file name.
C23_Reversible ==
    /\ nBack # Absent => Get(nBack) = Get(nModel)
    /\ (nPrev # Absent /\ nModel # Absent /\ Get(nPrev).model # Get(nModel))
          => Get(nPrev).file # Get(nFile)

\* the file name of "a_a" was turned back, into "a:a", after that of "a:a"
\* had been computed: the same file name
C23_Witness ==
    /\ nModel = Some(<<"a", "_", "a">>)
    /\ nBack = Some(<<"a", ":", "a">>)
    /\ nPrev # Absent
    /\ Get(nPrev).model = <<"a", ":", "a">>
    /\ Get(nPrev).file = Get(nFile)

(***************************************************************************)
(* The exit code                                                           *)
(***************************************************************************)
\* the statuses of the results of the run main is returning for
ExitStatuses ==
    {Get(xResult).tests[i].status : i \in 1..Len(Get(xResult).tests)}

C24_WitnessNonZero ==
    /\ xExit # Absent /\ Get(xExit) # 0
    /\ ExitStatuses = {"OK", "UNAVAILABLE"}

(***************************************************************************)
(* A full sweep whose status fetch fails                                   *)
(***************************************************************************)
\* the request of run has been answered, and not with the deployments
FetchFailed ==
    /\ wPc \notin {"none", "fetch"}
    /\ Get(wResponse).error # "none"

\* C25: when the status fetch at the start of a full sweep fails, the run
\* is aborted and the process ends with a non-zero status, no test has been
\* executed, and the current-state records, the history and the
\* cycle-state file are those found when the process started.
C25_FetchFailureAborts ==
    FetchFailed =>
        /\ wPc = "aborted"
        /\ wExit # Absent /\ Get(wExit) # 0
        /\ wRun = Absent
        /\ eRaw = Absent /\ rModel = Absent /\ wResults = <<>>
        /\ Len(outcomes) = Get(wBefore).outcomes
        /\ nUpdates = Get(wBefore).updates
        /\ status_files = Get(wBefore).status_files
        /\ history_file = Get(wBefore).history_file
        /\ cFile = Get(wBefore).cycle_file

\* a sweep has left a current-state record and a history entry, and the
\* next one met an HTTP error where main's own fetch had succeeded: it
\* was aborted with these files as they were
C25_Witness ==
    /\ FetchFailed
    /\ wSweeps = 2
    /\ wMainFetch
    /\ Get(wResponse).error = "http"
    /\ wPc = "aborted"
    /\ Len(history_file) > 0
    /\ \E f \in DOMAIN status_files : status_files[f] # Absent

(***************************************************************************)
(* Reading a history that does not exist                                   *)
(***************************************************************************)
\* C26: when the history file does not exist, load returns an empty list,
\* prune returns 0 and does not create the file, get_daily_summary returns
\* an empty mapping and get_recent_failures an empty list; none of them
\* raises.
C26_MissingFileReads ==
    (qRead # Absent /\ ~Get(qRead).found.exists) =>
        LET r == Get(qRead)
        IN  /\ ~r.returned.raised
            /\ r.op = "load" => r.returned.entries = <<>>
            /\ r.op = "prune" => r.returned.removed = 0 /\ ~qExists
            /\ r.op = "get_daily_summary" => DOMAIN r.returned.summary = {}
            /\ r.op = "get_recent_failures" => r.returned.failures = <<>>

\* get_recent_failures was called with a limit of 1 where no history file
\* exists, and there is still none
C26_Witness ==
    /\ qRead # Absent
    /\ ~Get(qRead).found.exists
    /\ Get(qRead).op = "get_recent_failures"
    /\ Get(qRead).limit = 1
    /\ ~qExists

(***************************************************************************)
(* The recent failures                                                     *)
(***************************************************************************)
\* the stored entries that get_recent_failures call r is to choose from:
\* those with a failing status written within its last `days`
FailuresInWindow(r) ==
    SelectSeq(EntriesOf(r.found.lines),
              LAMBDA e : /\ e.status \in {"FAILED", "UNAVAILABLE", "DEGRADED"}
                         /\ TimeOf(e) >= CutoffOf(r.found, r.days))

\* every entry of list a is in list b, as often at least
SubMultiset(a, b) ==
    \A i \in 1..Len(a) : Count(a, a[i]) <= Count(b, a[i])

\* C27: get_recent_failures(days, limit) returns only entries within the
\* last `days` whose status is FAILED, UNAVAILABLE or DEGRADED, ordered by
\* timestamp descending, and at most `limit` of them: the `limit` most
\* recent such entries.
C27_RecentFailures ==
    (qRead # Absent /\ Get(qRead).op = "get_recent_failures") =>
        LET r == Get(qRead)
            f == r.returned.failures
            all == FailuresInWindow(r)
        IN  /\ ~r.returned.raised
            /\ SubMultiset(f, all)
            /\ \A i, j \in 1..Len(f) : i < j => TimeOf(f[i]) >= TimeOf(f[j])
            /\ Len(f) = Min({r.limit, Len(all)})
            /\ \A i \in 1..Len(f) : \A k \in 1..Len(all) :
                  Count(f, all[k]) < Count(all, all[k]) => TimeOf(all[k]) <= TimeOf(f[i])

\* two failures were written within one second, the first with a timestamp
\* without fraction; get_recent_failures(limit=1) returned the first
C27_Witness ==
    /\ qRead # Absent
    /\ Get(qRead).op = "get_recent_failures"
    /\ Get(qRead).limit = 1
    /\ LET all == FailuresInWindow(Get(qRead))
       IN  /\ Len(all) = 2
           /\ TimeOf(all[1]) < TimeOf(all[2])
           /\ Get(qRead).returned.failures = <<all[1]>>

(***************************************************************************)
(* What prune leaves                                                       *)
(***************************************************************************)
RECURSIVE IsSubsequence(_, _)
\* list a is list b with some elements left out: the same lines in the same
\* order
IsSubsequence(a, b) ==
    IF a = <<>> THEN TRUE
    ELSE IF b = <<>> THEN FALSE
    ELSE IF Head(a) = Head(b) THEN IsSubsequence(Tail(a), Tail(b))
    ELSE IsSubsequence(a, Tail(b))

\* C28: after prune(keep_days) every kept entry is the line it was before
\* the prune, the kept entries are in their storage order, and the count
\* returned is the number of entries that the store holds no longer.
C28_PruneKeepsLines ==
    (qRead # Absent /\ Get(qRead).op = "prune" /\ ~Get(qRead).returned.raised) =>
        LET before == Get(qRead).found.lines
        IN  /\ IsSubsequence(history_file, before)
            /\ IsSubsequence(EntriesOf(history_file), EntriesOf(before))
            /\ Get(qRead).returned.removed
                  = Len(EntriesOf(before)) - Len(EntriesOf(history_file))

\* a prune removed the first of two entries and kept the second, a failure
\* with details of 2048 characters
C28_Witness ==
    /\ qRead # Absent /\ Get(qRead).op = "prune"
    /\ Get(qRead).returned.removed = 1
    /\ Len(Get(qRead).found.lines) = 2
    /\ history_file = Tail(Get(qRead).found.lines)
    /\ from_json_line(history_file[1]).details = Some(Str(HistDetailsMax))

(***************************************************************************)
(* The outcomes of one run                                                 *)
(***************************************************************************)
RECURSIVE ExpectedPairs(_)
\* the (model, scenario) pairs of a list of models in execution order: for
\* each model the scenarios that its architecture does not exclude
ExpectedPairs(models) ==
    IF models = <<>> THEN <<>>
    ELSE LET todo == Unrestricted(Head(models))
         IN  [i \in 1..Len(todo) |->
                 [model |-> Head(models).model_key, scenario |-> todo[i].name]]
             \o ExpectedPairs(Tail(models))

\* the outcomes produced since run was entered, and their pairs
RunProduced ==
    LET first == Get(wBefore).outcomes
    IN  [i \in 1..(Len(outcomes) - first) |-> outcomes[first + i].result]

PairsOf(results) ==
    [i \in 1..Len(results) |->
        [model |-> results[i].model, scenario |-> results[i].scenario]]

\* the history lines appended since run was entered
RunAppended ==
    SubSeq(history_file, Len(Get(wBefore).history_file) + 1, Len(history_file))

\* C29: when a run is over, there is exactly one outcome for every selected
\* model and every scenario that its architecture restriction does not
\* exclude, and none for a restricted scenario; the MonitorRun returned
\* lists these outcomes in execution order; each caused one current-state
\* update and one appended history entry.
C29_OneOutcomePerPair ==
    (wPc \in {"returned", "raised"}) =>
        LET expected == ExpectedPairs(wModels)
        IN  /\ PairsOf(RunProduced) = expected
            /\ wRun # Absent
            /\ Get(wRun).tests = RunProduced
            /\ nUpdates - Get(wBefore).updates = Len(expected)
            /\ Len(RunAppended) = Len(expected)
            /\ \A i \in 1..Len(RunAppended) :
                  LET e == from_json_line(RunAppended[i])
                  IN  /\ e.model = expected[i].model
                      /\ e.scenario = expected[i].scenario
                      /\ e.status = RunProduced[i].status
            /\ \A i \in 1..Len(expected) : outcomes[Get(wBefore).outcomes + i].returned

\* run had selected a model that is not available and then an available
\* one; the first got its outcome, the test of the second raised, and run
\* ended without a MonitorRun
C29_Witness ==
    /\ wPc = "raised"
    /\ Len(wModels) = 2
    /\ ~wModels[1].is_available /\ wModels[2].is_available
    /\ Len(RunProduced) = 1
    /\ Len(ExpectedPairs(wModels)) = 3
    /\ wRun = Absent

(***************************************************************************)
(* The retry loop of the publication                                       *)
(***************************************************************************)
\* the commands of the call that follow its commit
AfterCommit == SubSeq(gCommands, 4, Len(gCommands))

\* how many of them are pulls, and pushes
Pulls == Cardinality({i \in 1..Len(AfterCommit) : AfterCommit[i].cmd = "pull --rebase"})
Pushes == Cardinality({i \in 1..Len(AfterCommit) : AfterCommit[i].cmd = "push"})

\* the loop is a list of attempts, each a pull followed by a push, the push
\* being made whatever the pull did, and no push before the last succeeded
Attempts ==
    /\ \A i \in 1..Len(AfterCommit) :
          AfterCommit[i].cmd = (IF i % 2 = 1 THEN "pull --rebase" ELSE "push")
    /\ \A i \in 1..(Len(AfterCommit) - 1) :
          AfterCommit[i].cmd = "push" => ~AfterCommit[i].ok

RetryLoopSafe ==
    gCommitted =>
        /\ Attempts
        /\ Pulls <= 3 /\ Pushes <= 3
        /\ gPc = "push" => Pulls = Pushes + 1
        /\ gPc \in {"pull", "done"} => Pulls = Pushes
        /\ gPc = "done" =>
              /\ gReturn # Absent
              /\ Get(gReturn) <=> AfterCommit[Len(AfterCommit)].ok
              /\ ~Get(gReturn) => Pushes = 3
        /\ gCommands[3] = [cmd |-> "commit", ok |-> TRUE]

\* C30: after a successful local commit sync_notebooks_to_github makes at
\* most 3 attempts, each a pull --rebase followed by a push that is made
\* even when the pull failed; it stops at the first successful push and
\* returns True, returns False after the third failed push, always
\* returns, and runs no command but pulls and pushes after the commit.
C30_RetryLoopTerminates ==
    /\ []RetryLoopSafe
    /\ (gPc = "pull") ~> (gPc = "done")

\* the call returned False after three attempts whose pushes all failed,
\* the pull of the second having failed as well
C30_Witness ==
    /\ gPc = "done" /\ gReturn = Some(FALSE)
    /\ gCommitted
    /\ Pushes = 3 /\ Pulls = 3
    /\ ~AfterCommit[3].ok

(***************************************************************************)
(* The models of a full sweep                                              *)
(***************************************************************************)
\* the keys of the allow-list that the status lists, in allow-list order
BaselinePresent ==
    SelectSeq(BASELINE_MODELS,
              LAMBDA k : \E i \in 1..Len(Get(tStatus)) : Get(tStatus)[i].model_key = k)

\* the models selected after the baseline
Extras ==
    SubSeq(Get(tSelected), Len(BaselinePresent) + 1, Len(Get(tSelected)))

\* the hot models of the status that are not in the allow-list, of an
\* architecture
HotOthers(a) ==
    {i \in 1..Len(Get(tStatus)) :
        /\ Get(tStatus)[i].deployment_level = "HOT"
        /\ Get(tStatus)[i].architecture = a
        /\ \A j \in 1..Len(BASELINE_MODELS) : BASELINE_MODELS[j] # Get(tStatus)[i].model_key}

\* C31: get_test_models returns the keys of the allow-list that the status
\* lists, hot or cold, once each and in allow-list order, none of those it
\* does not list, and then only hot models outside the allow-list: of each
\* architecture max_extra_per_architecture of them (all, if there are
\* fewer), those of the smallest parameter counts.
C31_BaselineThenExtras ==
    tSelected # Absent =>
        LET status == Get(tStatus)
            selected == Get(tSelected)
            base == BaselinePresent
        IN  /\ Len(selected) >= Len(base)
            /\ \A i \in 1..Len(base) :
                  /\ selected[i].model_key = base[i]
                  /\ \E j \in 1..Len(status) : status[j] = selected[i]
            /\ \A i \in 1..Len(Extras) :
                  /\ \E j \in HotOthers(Extras[i].architecture) : status[j] = Extras[i]
                  /\ \A j \in 1..Len(Extras) :
                        Extras[i].model_key = Extras[j].model_key => i = j
            /\ \A a \in {"llama", "gpt2"} :
                  LET chosen == {i \in 1..Len(Extras) : Extras[i].architecture = a}
                  IN  /\ Cardinality(chosen) = Min({tMax, Cardinality(HotOthers(a))})
                      /\ \A i \in chosen : \A j \in HotOthers(a) :
                            (\A k \in chosen : Extras[k] # status[j])
                                => SizeKey(status[j]) >= SizeKey(Extras[i])

\* the status lists a cold model of the allow-list after two hot llama
\* models outside it, the larger first; with at most one extra model per
\* architecture the selection is the cold model and the smaller of the two
C31_Witness ==
    /\ tSelected # Absent
    /\ tMax = 1
    /\ Len(Get(tStatus)) = 3
    /\ Get(tStatus)[1].n_params = Some(2) /\ Get(tStatus)[1].deployment_level = "HOT"
    /\ Get(tStatus)[2].n_params = Some(1) /\ Get(tStatus)[2].deployment_level = "HOT"
    /\ Get(tStatus)[1].architecture = "llama" /\ Get(tStatus)[2].architecture = "llama"
    /\ Get(tStatus)[3].model_key = "meta-llama/Llama-3.1-8B"
    /\ Get(tStatus)[3].deployment_level = "COLD"
    /\ Get(tSelected) = <<Get(tStatus)[3], Get(tStatus)[2]>>

(***************************************************************************)
(* C32  update_model_status(model, scenario, result) changes only that     *)
(* pair: once its save is done, every other scenario of the model's        *)
(* record holds the ScenarioResult that was loaded, and no step of a run   *)
(* changes the status file of a model other than the one being updated.    *)
(***************************************************************************)
\* the scenarios of the record that update c loaded
LoadedScenarios(c) ==
    IF c.loaded = Absent THEN <<>> ELSE Get(c.loaded).scenarios

\* the update in progress has saved and the other scenarios are as loaded
OtherScenariosKept ==
    (call # Absent /\ rPc = "saved") =>
        \A i \in 1..Len(LoadedScenarios(Get(call))) :
            LET item == LoadedScenarios(Get(call))[i] IN
            item.name # Get(call).scenario =>
                PersistedResult(status_files, Get(call).model, item.name)
                    = Some(item.res)

\* a step changes no status file but that of the model being updated
OtherModelsKept ==
    \A f \in DOMAIN status_files :
        status_files'[f] # status_files[f] =>
            /\ call' # Absent
            /\ f = model_to_filename(Get(call').model)

C32_UpdateChangesOnlyItsPair == []OtherScenariosKept /\ [][OtherModelsKept]_vars

\* an update has saved while another scenario of the model and another
\* model have records
C32_Witness ==
    /\ call # Absent /\ rPc = "saved"
    /\ \E i \in 1..Len(LoadedScenarios(Get(call))) :
          LoadedScenarios(Get(call))[i].name # Get(call).scenario
    /\ \E f \in DOMAIN status_files :
          /\ f # model_to_filename(Get(call).model)
          /\ status_files[f] # Absent

(***************************************************************************)
(* C33  The current state is replayable from the log: with one worker and  *)
(* no prune, between update_model_status calls the stored ScenarioResult   *)
(* of every (model, scenario) has the status and the timestamp of the last *)
(* history entry of the pair as status and last_checked, and the timestamp *)
(* of the last OK or SLOW entry of the pair as last_success, null if there *)
(* is none; a pair without entries has no stored result.                   *)
(***************************************************************************)
\* the positions in the history file of the entries of a pair
PairEntries(m, sc) ==
    {i \in 1..Len(history_file) :
        /\ from_json_line(history_file[i]).model = m
        /\ from_json_line(history_file[i]).scenario = sc}

\* those that record a success
PairSuccesses(m, sc) ==
    {i \in PairEntries(m, sc) :
        from_json_line(history_file[i]).status \in {"OK", "SLOW"}}

\* the ScenarioResult fields that the log gives for a pair with entries
Replayed(m, sc) ==
    LET last == from_json_line(history_file[Max(PairEntries(m, sc))])
    IN  [status |-> last.status,
         last_checked |-> TimeOf(last),
         last_success |->
            IF PairSuccesses(m, sc) = {} THEN Absent
            ELSE Some(TimeOf(from_json_line(
                          history_file[Max(PairSuccesses(m, sc))])))]

C33_StateReplayableFromLog ==
    call = Absent =>
        \A m \in Models, sc \in ScenarioNames :
            LET pr == PersistedResult(status_files, m, sc) IN
            IF PairEntries(m, sc) = {} THEN pr = Absent
            ELSE /\ pr # Absent
                 /\ Get(pr).status = Replayed(m, sc).status
                 /\ Get(pr).last_checked = Replayed(m, sc).last_checked
                 /\ Get(pr).last_success = Replayed(m, sc).last_success

\* a pair whose last entry is a failure written after a success, and whose
\* stored last_success is the earlier time of that success
C33_Witness ==
    /\ call = Absent
    /\ \E m \in Models, sc \in ScenarioNames :
          /\ PairSuccesses(m, sc) # {}
          /\ Max(PairSuccesses(m, sc)) < Max(PairEntries(m, sc))
          /\ Replayed(m, sc).status = "FAILED"
          /\ Get(Replayed(m, sc).last_success) < Replayed(m, sc).last_checked
          /\ Get(PersistedResult(status_files, m, sc)).last_success
                = Replayed(m, sc).last_success

(***************************************************************************)
(* C34  With two invocations interleaving the steps of update_model_status *)
(* (take timestamp, load, modify, save) on one model and scenario under a  *)
(* shared non-decreasing clock, every stored ScenarioResult has            *)
(* last_success null or <= last_checked, and a stored last_success is      *)
(* never followed by a smaller or null one.                                *)
(***************************************************************************)
\* the shared status file holds a result for sc whose last_success is at
\* least t
SuccessAtLeast(sc, t) ==
    /\ LastSuccess(status_files, SharedModel, sc) # Absent
    /\ Get(LastSuccess(status_files, SharedModel, sc)) >= t

\* the shared status file cannot be read, or holds no result for sc
NoResult(sc) == PersistedResult(status_files, SharedModel, sc) = Absent

\* last_success is null or <= last_checked in the shared record
SharedSuccessNotAfterChecked ==
    \A sc \in ScenarioNames :
        ~NoResult(sc) =>
            LET r == Get(PersistedResult(status_files, SharedModel, sc)) IN
            r.last_success = Absent \/ Get(r.last_success) <= r.last_checked

\* once last_success of sc has reached t, every later record of sc has a
\* last_success of at least t
SharedSuccessNeverDecreases ==
    \A sc \in ScenarioNames : \A t \in 0..MaxClock :
        [](SuccessAtLeast(sc, t) => [](NoResult(sc) \/ SuccessAtLeast(sc, t)))

C34_InterleavedUpdatesKeepWatermark ==
    []SharedSuccessNotAfterChecked /\ SharedSuccessNeverDecreases

\* an invocation that read its now before another one saved a success has
\* stored a failure of the same scenario: last_success is after last_checked
C34_Witness ==
    \E sc \in ScenarioNames :
        /\ ~NoResult(sc)
        /\ Get(PersistedResult(status_files, SharedModel, sc)).status = "FAILED"
        /\ SuccessAtLeast(sc,
              Get(PersistedResult(status_files, SharedModel, sc)).last_checked + 1)

\* both invocations have returned and the stored last_success of a scenario
\* is null although the history holds a success of that scenario
C34_WitnessLost ==
    /\ \A p \in Writers : uPc[p] = "idle"
    /\ \E sc \in ScenarioNames :
          /\ ~NoResult(sc)
          /\ LastSuccess(status_files, SharedModel, sc) = Absent
          /\ \E i \in 1..Len(history_file) :
                /\ from_json_line(history_file[i]).scenario = sc
                /\ from_json_line(history_file[i]).status \in {"OK", "SLOW"}

(***************************************************************************)
(* C35  update_model_status saves the current-state record before it       *)
(* appends the history entry: with one worker that may stop between any    *)
(* two steps, at the step that appends a history entry the persisted       *)
(* record of its model already holds the entry's scenario with the same    *)
(* status and timestamp, and a stored result without such a history entry  *)
(* is the one result in flight.                                            *)
(***************************************************************************)
\* the step appends one entry, and the status file of its model holds the
\* entry's scenario with its status and its time as last_checked
AppendReflected ==
    history_file' # history_file =>
        /\ Len(history_file') = Len(history_file) + 1
        /\ LET e == from_json_line(history_file'[Len(history_file')])
               pr == PersistedResult(status_files, e.model, e.scenario)
           IN  /\ pr # Absent
               /\ Get(pr).status = e.status
               /\ Get(pr).last_checked = TimeOf(e)

\* the stored results that no history entry records
Unlogged ==
    {pair \in {mi.model_key : mi \in ModelInfos}
              \X {RunScenarios[i].name : i \in 1..Len(RunScenarios)} :
        LET pr == PersistedResult(status_files, pair[1], pair[2]) IN
        /\ pr # Absent
        /\ ~\E i \in 1..Len(history_file) :
              LET e == from_json_line(history_file[i]) IN
              /\ e.model = pair[1] /\ e.scenario = pair[2]
              /\ e.status = Get(pr).status
              /\ TimeOf(e) = Get(pr).last_checked}

\* a stored result that is not in the history is that of the result whose
\* update has not returned
OnlyInFlightUnlogged ==
    /\ Cardinality(Unlogged) <= 1
    /\ \A pair \in Unlogged :
          /\ InFlight = {Len(outcomes)}
          /\ pair = <<outcomes[Len(outcomes)].result.model,
                      outcomes[Len(outcomes)].result.scenario>>

C35_SavedBeforeLogged == []OnlyInFlightUnlogged /\ [][AppendReflected]_vars

\* the worker stopped between the save and the append of its second result:
\* the record holds it and the history holds the first result only
C35_Witness ==
    /\ rPc = "crashed"
    /\ Len(history_file) = 1
    /\ Cardinality(Unlogged) = 1
    /\ Len(outcomes) = 2

(***************************************************************************)
(* C36  In get_daily_summary the status reported for a scenario under a    *)
(* (local date, model) is that of the entry of the pair that comes last in *)
(* storage order among the entries of that date, whatever the timestamps   *)
(* say, and the status of the date is the fold over these last statuses    *)
(* alone: earlier entries of a pair count in their hour buckets only.      *)
(***************************************************************************)
\* the position, in the list a summary loaded, of the last entry of a
\* scenario under a local date and model
LastStored(s, k, scenario) ==
    Max({i \in OnDate(s, k) : s.entries[i].scenario = scenario})

\* the statuses of the last stored entries of the scenarios of a day
LastStatuses(s, k) ==
    [j \in 1..Len(s.summary[k].scenarios) |->
        s.entries[LastStored(s, k, s.summary[k].scenarios[j].name)].status]

C36_LastStoredDecides ==
    sSummary # Absent =>
        LET s == Get(sSummary) IN
        \A k \in DOMAIN s.summary :
            /\ ScenarioNamesOf(s.summary[k])
                  = {s.entries[i].scenario : i \in OnDate(s, k)}
            /\ DictValues(s.summary[k].scenarios) = LastStatuses(s, k)
            /\ s.summary[k].status = worst_status(LastStatuses(s, k))

\* a summary of two entries of one pair on one local date: the first
\* stored, SLOW, has the later timestamp, the second is OK; the scenario
\* and the date are OK and the hour bucket of the first is SLOW
C36_Witness ==
    /\ sSummary # Absent
    /\ Len(Get(sSummary).entries) = 2
    /\ Get(sSummary).entries[1].status = "SLOW"
    /\ Get(sSummary).entries[2].status = "OK"
    /\ Get(sSummary).entries[1].scenario = Get(sSummary).entries[2].scenario
    /\ TimeOf(Get(sSummary).entries[2]) < TimeOf(Get(sSummary).entries[1])
    /\ \E k \in DOMAIN Get(sSummary).summary :
          /\ OnDate(Get(sSummary), k) = {1, 2}
          /\ Get(sSummary).summary[k].status = "OK"
          /\ DictValues(Get(sSummary).summary[k].scenarios) = <<"OK">>
          /\ \E j \in 1..Len(Get(sSummary).summary[k].hours) :
                Get(sSummary).summary[k].hours[j].res = "SLOW"

(***************************************************************************)
(* C37  Every TestResult produced by a run has error_category null when    *)
(* its status is OK or COLD and MODEL_NOT_LOADED when it is UNAVAILABLE,   *)
(* none has status SLOW or DEGRADED, and so no history entry written by    *)
(* the run carries SLOW or DEGRADED.                                       *)
(***************************************************************************)
\* status and error_category of a TestResult agree
CategoryAgrees(result) ==
    /\ result.status \in {"OK", "COLD"} => result.error_category = Absent
    /\ result.status = "UNAVAILABLE" =>
          result.error_category = Some("MODEL_NOT_LOADED")
    /\ result.status \notin {"SLOW", "DEGRADED"}

C37_ResultsWellFormed ==
    /\ \A k \in 1..Len(outcomes) : CategoryAgrees(outcomes[k].result)
    /\ \A i \in 1..Len(rResults) : CategoryAgrees(rResults[i])
    /\ (eResult # Absent /\ ~Get(eResult).raised) =>
          CategoryAgrees(Get(eResult).result)
    /\ \A i \in 1..Len(history_file) :
          from_json_line(history_file[i]).status \notin {"SLOW", "DEGRADED"}

\* a run has produced a COLD result without error category and its entry
\* is in the history
C37_Witness ==
    /\ \E k \in 1..Len(outcomes) :
          /\ outcomes[k].result.status = "COLD"
          /\ outcomes[k].result.error_category = Absent
          /\ outcomes[k].returned
    /\ \E i \in 1..Len(history_file) :
          from_json_line(history_file[i]).status = "COLD"

(***************************************************************************)
(* C38  After every next_model(models) that returns, whatever the length   *)
(* of the list at the call before, 0 <= last_index < len(models), the      *)
(* model returned is models[last_index] and the cycle-state file holds     *)
(* that index; with an empty list next_model raises and leaves the index   *)
(* in memory and the file as they were.                                    *)
(***************************************************************************)
\* the next_model call that has just returned or raised
LastCall == cSelected[Len(cSelected)]

C38_NextModelIndex ==
    /\ cPc = "returned" =>
          /\ cN > 0
          /\ 0 <= cLast /\ cLast < cN
          /\ LastCall.model = Some(CycleModels(cN)[cLast + 1])
          /\ cFile = Some([last_index |-> cLast])
    /\ cPc = "raised" =>
          /\ cN = 0
          /\ cLast = LastCall.last
          /\ cFile = LastCall.before

\* next_model has returned for a list of one model after a call with three
\* models had left the index at 2
C38_Witness ==
    /\ cPc = "returned"
    /\ cN = 1
    /\ LastCall.last = 2
    /\ cLast = 0

\* next_model has raised on an empty list when the file held index 1
C38_WitnessRaised ==
    /\ cPc = "raised"
    /\ cFile = Some([last_index |-> 1])
    /\ cLast = 1
====
